---- MODULE Spec2Model ----
(***************************************************************************)
(* Model of the VIP wholesale discount server (src/server.js, first        *)
(* variant, lines 1-437): the /webhook handler, the daily expiry sweep,    *)
(* the popup check, the dedup set with its 60 s timers and the             *)
(* recentlyQualified map, running against the remote customer directory    *)
(* (customer groups and attribute values) and the order source.  The       *)
(* popup check of the second variant (lines 504-515) is modelled beside    *)
(* the first.                                                              *)
(*                                                                         *)
(* Every `await` of the code is a step boundary: a remote call takes       *)
(* effect on the directory and hands its result to the continuation in     *)
(* one step, and the continuation runs up to the next `await`.  A remote   *)
(* call that fails has no effect on the directory.                         *)
(***************************************************************************)
EXTENDS Integers, Sequences, FiniteSets, TLC

\* ---------------------------------------------------------------- constants
MIN_QUANTITY == 2000
DISCOUNT_DAYS == 90
VIP_GROUP_ID == 2
DATE_ATTRIBUTE_ID == 1
\* an attribute definition of the store other than the qualification date
OTHER_ATTRIBUTE_ID == 7

\* ------------------------------------------------------------------- bounds
\* clock resolution: Date.now() is counted in ticks, TicksPerDay to a day
TicksPerDay == 2
\* the calendar day (UTC) on which the process starts, at midnight
StartDay == 100
\* ticks the clock may advance after the start
MaxTicks == 2
\* remote calls that may fail in one behaviour
MaxFailures == 1
\* discount windows the clock may skip while the server is at rest
MaxSeasons == 1

Customers == {1, 2}
\* one handler invocation per webhook delivery of a behaviour
Handlers == {1, 2}

\* ------------------------------------------------------------ pure helpers
\* new Date(value).getTime(): a calendar date is the midnight that starts it
DateToTime(day) == day * TicksPerDay

\* line 374: the day DISCOUNT_DAYS after instant t
ExpiryDateOf(t) == (t + DISCOUNT_DAYS * TicksPerDay) \div TicksPerDay

\* new Date().toISOString().split('T')[0]: the calendar day holding instant t
TodayOf(t) == t \div TicksPerDay

\* an absent or empty attribute_value (falsy in `!attr.attribute_value`)
EmptyValue == 0
\* the id of "no record" (find(...) || null)
NoRecId == 0
NoRec == [id |-> NoRecId, customer_id |-> 0, attribute_id |-> DATE_ATTRIBUTE_ID,
          attribute_value |-> EmptyValue]

\* daysDiff > DISCOUNT_DAYS, with daysDiff = (Date.now() - date) / one day
DaysDiffAtLeast(value, t) == t - DateToTime(value) >= DISCOUNT_DAYS * TicksPerDay
DaysDiffExceeds(value, t) == t - DateToTime(value) > DISCOUNT_DAYS * TicksPerDay

RECURSIVE SumQuantities(_)
\* products.reduce((sum, p) => sum + p.quantity, 0)
SumQuantities(items) ==
    IF items = <<>> THEN 0 ELSE Head(items) + SumQuantities(Tail(items))

\* totalQty < MIN_QUANTITY is the non-qualifying branch
QualifiesAbove(total) == total > MIN_QUANTITY
Qualifies(total) == ~(total < MIN_QUANTITY)

\* ------------------------------------------------------------ order source
UnknownOrder == 9
\* data.id absent (undefined)
NoId == 0
OrderIds == 1..6
\* order.customer_id absent
NoCustomer == -1
Order(o) ==
    CASE o = 1 -> [customer_id |-> 1, items |-> <<MIN_QUANTITY - 1, 1>>]
      [] o = 2 -> [customer_id |-> 1, items |-> <<MIN_QUANTITY - 1>>]
      [] o = 3 -> [customer_id |-> 0, items |-> <<10000>>]
      [] o = 4 -> [customer_id |-> 2, items |-> <<>>]
      [] o = 5 -> [customer_id |-> 1, items |-> <<MIN_QUANTITY, 1>>]
      [] o = 6 -> [customer_id |-> NoCustomer, items |-> <<MIN_QUANTITY>>]

\* !customerId || customerId === 0
IsGuestZeroOnly(cid) == cid = 0
IsGuest(cid) == cid = NoCustomer \/ cid = 0

\* ---------------------------------------------------------- webhook bodies
OrderCreated == "store/order/created"
CartConverted == "store/cart/converted"

Body(scope, hasData, id, created) ==
    [scope |-> scope, hasData |-> hasData, id |-> id, created_at |-> created]

Bodies ==
    {Body(OrderCreated, TRUE, o, 1) : o \in OrderIds \cup {UnknownOrder, NoId}}
    \cup {Body(OrderCreated, TRUE, 1, 2),
          Body(CartConverted, TRUE, 1, 1),
          Body(OrderCreated, FALSE, NoId, 1)}

\* a key without the creation timestamp
WebhookIdNoTimestamp(body) ==
    <<body.scope, IF body.hasData THEN body.id ELSE NoId, 0>>

\* `${req.body.scope}-${req.body.data?.id}-${req.body.created_at}`:
\* a missing data and a missing data.id both print as "undefined"
WebhookId(body) ==
    <<body.scope, IF body.hasData THEN body.id ELSE NoId, body.created_at>>


Keys == {WebhookId(b) : b \in Bodies}

\* ------------------------------------------------------------------- state
VARIABLES
    now,                \* Date.now(), in ticks
    group,              \* directory: customer_group_id of every customer
    attrs,              \* directory: the attribute-value records
    nextId,             \* directory: id the next inserted record gets
    processedWebhooks,  \* the dedup Set
    timers,             \* pending setTimeout(delete, 60000) per key
    recentlyQualified,  \* the Map customer id -> instant of qualification
    hs,                 \* one /webhook handler invocation per delivery
    delivered,          \* deliveries received so far
    sweep,              \* the invocation of checkExpiredVIPCustomers
    failures,           \* remote calls that have failed so far
    popups              \* the invocations of /api/just-qualified/:customerId

vars == <<now, group, attrs, nextId, processedWebhooks, timers,
          recentlyQualified, hs, delivered, sweep, failures, popups>>

dirVars == <<group, attrs, nextId>>

\* ------------------------------------------------------ directory (remote)
\* GET attribute-values?customer_id:in=c, in the order of the record ids
AttrsOfCustomer(c) == {r \in attrs : r.customer_id = c}

LowestId(rs) == CHOOSE r \in rs : \A q \in rs : r.id <= q.id

\* attributeValues.find(av => av.customer_id === customerId &&
\*                            av.attribute_id === parseInt(DATE_ATTRIBUTE_ID)) || null
FindAnyAttribute(c) ==
    IF AttrsOfCustomer(c) = {} THEN NoRec ELSE LowestId(AttrsOfCustomer(c))
FindQualificationAttribute(c) ==
    LET rs == {r \in AttrsOfCustomer(c) : r.attribute_id = DATE_ATTRIBUTE_ID}
    IN  IF rs = {} THEN NoRec ELSE LowestId(rs)

\* a date write that always inserts a record
InsertAlways(c, value) ==
    attrs \cup {[id |-> nextId, customer_id |-> c,
                 attribute_id |-> DATE_ATTRIBUTE_ID, attribute_value |-> value]}

\* a date write that only updates a record that exists
UpdateExisting(c, value) ==
    LET old == {r \in attrs : r.customer_id = c /\ r.attribute_id = DATE_ATTRIBUTE_ID}
    IN  (attrs \ old) \cup {[r EXCEPT !.attribute_value = value] : r \in old}

\* PUT attribute-values [{customer_id, attribute_id, value}]: the directory
\* updates the record of that customer and attribute, or inserts one
Upsert(c, value) ==
    LET old == {r \in attrs : r.customer_id = c /\ r.attribute_id = DATE_ATTRIBUTE_ID}
    IN  IF old = {}
        THEN attrs \cup {[id |-> nextId, customer_id |-> c,
                          attribute_id |-> DATE_ATTRIBUTE_ID,
                          attribute_value |-> value]}
        ELSE (attrs \ old) \cup {[r EXCEPT !.attribute_value = value] : r \in old}

NextIdAfterUpsert(c) ==
    IF \E r \in attrs : r.customer_id = c /\ r.attribute_id = DATE_ATTRIBUTE_ID
    THEN nextId ELSE nextId + 1

\* a delete that removes every qualification-date record
DeleteEveryDate(id) == {r \in attrs : r.attribute_id # DATE_ATTRIBUTE_ID}

\* DELETE attribute-values?id:in=id
DeleteById(id) == {r \in attrs : r.id # id}

\* customer.customer_group_id === parseInt(VIP_GROUP_ID)
\* (customer && ...: an id the directory does not know yields no customer)
IsInVIPGroup(c) == c \in DOMAIN group /\ group[c] = VIP_GROUP_ID

\* PUT customers [{id, customer_group_id}]
SetGroup(c, g) == IF c \in DOMAIN group THEN [group EXCEPT ![c] = g] ELSE group

\* a verification that takes any answer as a date
CheckIfQualifiedAlways(attr) == 1

\* checkIfQualified: attr?.attribute_value || null, on the record (or null)
\* that getQualificationAttribute returned
CheckIfQualified(attr) == attr.attribute_value

\* checkExpiry that takes a missing date as still active
CheckExpiryFailOpen(attr, t) ==
    IF attr.id = NoRecId \/ attr.attribute_value = EmptyValue
    THEN [expired |-> FALSE, qualifiedDate |-> EmptyValue, attrId |-> NoRecId]
    ELSE [expired |-> DaysDiffExceeds(attr.attribute_value, t),
          qualifiedDate |-> attr.attribute_value, attrId |-> attr.id]

\* checkExpiry on the record (or null) that getQualificationAttribute returned
CheckExpiry(attr, t) ==
    IF attr.id = NoRecId \/ attr.attribute_value = EmptyValue
    THEN [expired |-> TRUE, qualifiedDate |-> EmptyValue, attrId |-> NoRecId]
    ELSE [expired |-> DaysDiffExceeds(attr.attribute_value, t),
          qualifiedDate |-> attr.attribute_value, attrId |-> attr.id]

\* a verification that is entered when either write succeeded
AnyWriteSucceeded(dateSuccess, groupSuccess) == dateSuccess \/ groupSuccess

\* if (dateSuccess && groupSuccess)
WritesSucceeded(dateSuccess, groupSuccess) == dateSuccess /\ groupSuccess

\* --------------------------------------------------------------- handlers
NoBody == Body("", FALSE, NoId, 0)

Fresh ==
    [pc |-> "none", body |-> NoBody, cust |-> 0, total |-> 0, today |-> 0,
     dateSuccess |-> FALSE, groupSuccess |-> FALSE, attrId |-> NoRecId,
     status |-> 0,
     \* bookkeeping for the properties, never read by the handler:
     vip |-> "unread",      \* isInVIPGroup as read: "unread", "yes", "no"
     seen |-> "unread",     \* what checkExpiry got: "null", "empty", "dated"
     qualAt |-> 0,          \* the instant `today` was taken
     calls |-> 0,           \* remote calls issued
     writes |-> <<>>,       \* directory writes issued, in order
     path |-> "",           \* the branch taken
     win |-> "none",        \* this delivery's 60 s window: "open", "closed"
     responses |-> 0,       \* responses sent on res
     marked |-> FALSE,      \* this invocation called recentlyQualified.set
     failed |-> FALSE,      \* a remote call of this invocation failed
     interfered |-> FALSE]  \* another invocation wrote to the same customer

InFlight(h) == hs[h].pc \notin {"none", "done"}

\* a handler whose catch block acknowledges the delivery
RespondAlwaysOk(r, code, path) ==
    [r EXCEPT !.pc = "done", !.status = 200, !.path = path,
              !.responses = @ + 1]

\* res.sendStatus(code): the handler's last step in every branch
Respond(r, code, path) ==
    [r EXCEPT !.pc = "done", !.status = code, !.path = path,
              !.responses = @ + 1]

\* a remote call that is issued and never returns
CallNeverReturns(r, pc) == [r EXCEPT !.pc = "lost", !.calls = @ + 1]

\* the next remote call is issued
Call(r, pc) == [r EXCEPT !.pc = pc, !.calls = @ + 1]

\* bookkeeping: a write to customer c by `self` lands while other
\* invocations working on c are in flight
Disturb(f, c, self) ==
    [k \in Handlers |->
        IF k # self /\ f[k].pc \notin {"none", "done"} /\ f[k].cust = c
        THEN [f[k] EXCEPT !.interfered = TRUE] ELSE f[k]]

SweepTouches(c) ==
    /\ sweep.pc # "idle"
    /\ \E i \in 1..Len(sweep.list) : sweep.list[i].customer_id = c

DisturbSweep(c) ==
    IF SweepTouches(c) THEN [sweep EXCEPT !.interfered = TRUE] ELSE sweep

\* a remote call may fail while the failure budget lasts
MayFail(ok) == ok \/ failures < MaxFailures
Count(ok) == IF ok THEN failures ELSE failures + 1

\* ------------------------------------------------------------ popup checks
\* one invocation of GET /api/just-qualified/:customerId per request
Polls == {1, 2}

FreshPoll ==
    [pc |-> "none", cust |-> 0, windowed |-> TRUE,
     \* the JSON response
     justQualified |-> FALSE, isVIP |-> FALSE, daysLeft |-> 0,
     \* bookkeeping for the properties, never read by the endpoint:
     reached |-> FALSE,     \* the invocation got to recentlyQualified.has
     failed |-> FALSE]      \* a remote call of this invocation failed

Polled == Cardinality({p \in Polls : popups[p].pc # "none"})

\* Math.floor(Math.max(0, DISCOUNT_DAYS - daysDiff))
DaysLeft(value, t) ==
    LET left == DISCOUNT_DAYS * TicksPerDay - (t - DateToTime(value))
    IN  IF left <= 0 THEN 0 ELSE left \div TicksPerDay

\* a delete that leaves the entry in the map
MapKeep(m, c) == m

\* recentlyQualified.delete(customerId)
MapDelete(m, c) == [d \in DOMAIN m \ {c} |-> m[d]]

\* a refusal that still reports the customer as VIP
RefuseAsVIP(r) == [r EXCEPT !.pc = "done", !.justQualified = FALSE, !.isVIP = TRUE,
                            !.daysLeft = 0]

\* res.json({justQualified: false, isVIP: false, daysLeft: 0})
Refuse(r) == [r EXCEPT !.pc = "done", !.justQualified = FALSE, !.isVIP = FALSE,
                       !.daysLeft = 0]

\* --------------------------------------------------------------- Init
OldDay == StartDay - DISCOUNT_DAYS - 1
EdgeDay == StartDay - DISCOUNT_DAYS

\* what the directory may hold for one customer when the process starts
Profile(g, has, value) == [group |-> g, has |-> has, value |-> value]
Unqualified == Profile(0, FALSE, EmptyValue)
VipExpired == Profile(VIP_GROUP_ID, TRUE, OldDay)
VipAtEdge == Profile(VIP_GROUP_ID, TRUE, EdgeDay)
VipNoRecord == Profile(VIP_GROUP_ID, FALSE, EmptyValue)
VipEmptyValue == Profile(VIP_GROUP_ID, TRUE, EmptyValue)
Profiles == {Unqualified, VipExpired, VipAtEdge, VipNoRecord, VipEmptyValue}

\* a record of another attribute of customer 1, with a date long past
ForeignRecord ==
    [id |-> 1, customer_id |-> 1, attribute_id |-> OTHER_ATTRIBUTE_ID,
     attribute_value |-> 1]

IdleSweep ==
    [pc |-> "idle", list |-> <<>>, idx |-> 0,
     \* bookkeeping for the properties, never read by the pass:
     writes |-> <<>>,       \* directory writes issued, in order
     snapshot |-> {},       \* the directory's records when the list was read
     after |-> {},          \* the handlers that had finished by then
     failed |-> FALSE,      \* a remote call of this pass failed
     interfered |-> FALSE,  \* a handler wrote to a listed customer meanwhile
     fetchedAt |-> 0, endedAt |-> 0]

\* the directory holds the profiles p; the rest is as constructed
InitWith(p) ==
    /\ now = DateToTime(StartDay)
    /\ group = [c \in Customers |-> p[c].group]
    /\ attrs = {ForeignRecord} \cup
               {[id |-> c + 1, customer_id |-> c,
                 attribute_id |-> DATE_ATTRIBUTE_ID,
                 attribute_value |-> p[c].value] : c \in {d \in Customers : p[d].has}}
    /\ nextId = Cardinality(Customers) + 2
    /\ processedWebhooks = {}
    /\ timers = [k \in Keys |-> 0]
    /\ recentlyQualified = [c \in {} |-> 0]
    /\ hs = [h \in Handlers |-> Fresh]
    /\ delivered = 0
    /\ failures = 0
    /\ popups = [k \in Polls |-> FreshPoll]

\* line 423: checkExpiredVIPCustomers() is called at start, and its list
\* request is in flight when the server begins to listen
Init ==
    /\ \E p \in [Customers -> Profiles] : InitWith(p)
    /\ sweep = [IdleSweep EXCEPT !.pc = "fetch", !.fetchedAt = now, !.endedAt = now]

\* ------------------------------------------------ app.post('/webhook', ...)
\* Lines 298-319: the dedup check, the insert with its timer, and the
\* synchronous part of the try block up to the order fetch.
Receive(body) ==
    /\ delivered < Cardinality(Handlers)
    /\ delivered' = delivered + 1
    /\ LET h == delivered + 1
           key == WebhookId(body)
           r == [hs[h] EXCEPT !.body = body, !.win = "open"]
       IN  IF key \in processedWebhooks
           THEN /\ hs' = [hs EXCEPT ![h] =
                      Respond([r EXCEPT !.win = "none"], 200, "duplicate")]
                /\ UNCHANGED <<processedWebhooks, timers>>
           ELSE /\ processedWebhooks' = processedWebhooks \cup {key}
                /\ timers' = [timers EXCEPT ![key] = @ + 1]
                /\ hs' = [hs EXCEPT ![h] =
                      IF body.scope # OrderCreated
                      THEN Respond(r, 200, "scope")
                      ELSE IF ~body.hasData
                      THEN Respond([r EXCEPT !.failed = TRUE], 500, "error")
                      ELSE Call(r, "order")]
    /\ UNCHANGED popups
    /\ UNCHANGED <<now, dirVars, recentlyQualified, sweep, failures>>

\* a timer callback that leaves the key in the set
DedupTimeoutKeepsKey(key) ==
    /\ timers[key] > 0
    /\ timers' = [timers EXCEPT ![key] = @ - 1]
    /\ UNCHANGED <<now, dirVars, processedWebhooks, recentlyQualified, hs,
                   delivered, sweep, failures, popups>>

\* the callback of setTimeout(() => processedWebhooks.delete(webhookId), 60000)
DedupTimeout(key) ==
    /\ timers[key] > 0
    /\ timers' = [timers EXCEPT ![key] = @ - 1]
    /\ processedWebhooks' = processedWebhooks \ {key}
    /\ hs' = [h \in Handlers |->
                IF hs[h].win = "open" /\ WebhookId(hs[h].body) = key
                THEN [hs[h] EXCEPT !.win = "closed"] ELSE hs[h]]
    /\ UNCHANGED popups
    /\ UNCHANGED <<now, dirVars, recentlyQualified, delivered, sweep, failures>>

\* Lines 319-331: the order arrives (or axios throws: a failed call, or an
\* id the order source does not know); guest check; customer fetch issued.
OrderResp(h, ok) ==
    /\ hs[h].pc = "order"
    /\ MayFail(ok)
    /\ LET r == hs[h]
           known == r.body.id \in OrderIds
           cid == Order(r.body.id).customer_id
       IN  /\ ~known => ok
           /\ failures' = Count(ok)
           /\ hs' = [hs EXCEPT ![h] =
                 IF ~ok \/ ~known
                 THEN Respond([r EXCEPT !.failed = TRUE], 500, "error")
                 ELSE IF IsGuest(cid)
                 THEN Respond([r EXCEPT !.cust = cid], 200, "guest")
                 ELSE Call([r EXCEPT !.cust = cid], "customer")]
    /\ UNCHANGED popups
    /\ UNCHANGED <<now, dirVars, processedWebhooks, timers, recentlyQualified,
                   delivered, sweep>>

\* Lines 331-356: the customer arrives; VIP branch calls checkExpiry,
\* otherwise the line items are fetched.
CustomerResp(h, ok) ==
    /\ hs[h].pc = "customer"
    /\ MayFail(ok)
    /\ failures' = Count(ok)
    /\ LET r == hs[h]
           vip == IsInVIPGroup(r.cust)
       IN  hs' = [hs EXCEPT ![h] =
                 IF ~ok
                 THEN Respond([r EXCEPT !.failed = TRUE], 500, "error")
                 ELSE IF vip
                 THEN Call([r EXCEPT !.vip = "yes"], "expiry")
                 ELSE Call([r EXCEPT !.vip = "no"], "products")]
    /\ UNCHANGED popups
    /\ UNCHANGED <<now, dirVars, processedWebhooks, timers, recentlyQualified,
                   delivered, sweep>>

\* Lines 341-351 with checkExpiry (162-175): getQualificationAttribute
\* returns the record, or null when the call fails.
ExpiryResp(h, ok) ==
    /\ hs[h].pc = "expiry"
    /\ MayFail(ok)
    /\ failures' = Count(ok)
    /\ LET r == hs[h]
           attr == IF ok THEN FindQualificationAttribute(r.cust) ELSE NoRec
           expiry == CheckExpiry(attr, now)
           seen == [r EXCEPT !.seen = IF attr.id = NoRecId THEN "null"
                                      ELSE IF attr.attribute_value = EmptyValue
                                      THEN "empty" ELSE "dated",
                             !.failed = @ \/ ~ok]
       IN  hs' = [hs EXCEPT ![h] =
                 IF expiry.expired
                 THEN Call([seen EXCEPT !.path = "demote"], "remove")
                 ELSE Respond(seen, 200, "active")]
    /\ UNCHANGED popups
    /\ UNCHANGED <<now, dirVars, processedWebhooks, timers, recentlyQualified,
                   delivered, sweep>>

\* Line 345, removeFromVIPGroup (239-255), then deleteQualificationDate
\* starts with its lookup (202).
RemoveResp(h, ok) ==
    /\ hs[h].pc = "remove"
    /\ MayFail(ok)
    /\ failures' = Count(ok)
    /\ LET r == hs[h]
           f == IF ok THEN Disturb(hs, r.cust, h) ELSE hs
       IN  /\ group' = IF ok THEN SetGroup(r.cust, 0) ELSE group
           /\ sweep' = IF ok THEN DisturbSweep(r.cust) ELSE sweep
           /\ hs' = [f EXCEPT ![h] =
                 Call([r EXCEPT !.writes = Append(@, "removeGroup"),
                                !.failed = @ \/ ~ok], "lookup")]
    /\ UNCHANGED popups
    /\ UNCHANGED <<now, attrs, nextId, processedWebhooks, timers,
                   recentlyQualified, delivered>>

\* deleteQualificationDate, lines 202-207: a failed lookup returns null from
\* getQualificationAttribute, which reads as "nothing to delete".
LookupResp(h, ok) ==
    /\ hs[h].pc = "lookup"
    /\ MayFail(ok)
    /\ failures' = Count(ok)
    /\ LET r == [hs[h] EXCEPT !.failed = @ \/ ~ok]
           attr == IF ok THEN FindQualificationAttribute(r.cust) ELSE NoRec
       IN  hs' = [hs EXCEPT ![h] =
                 IF attr.id = NoRecId
                 THEN Respond(r, 200, "demote")
                 ELSE Call([r EXCEPT !.attrId = attr.id], "delete")]
    /\ UNCHANGED popups
    /\ UNCHANGED <<now, dirVars, processedWebhooks, timers, recentlyQualified,
                   delivered, sweep>>

\* deleteQualificationDate, lines 208-216, then res.sendStatus(200) (351)
DeleteResp(h, ok) ==
    /\ hs[h].pc = "delete"
    /\ MayFail(ok)
    /\ failures' = Count(ok)
    /\ LET r == hs[h]
           f == IF ok THEN Disturb(hs, r.cust, h) ELSE hs
       IN  /\ attrs' = IF ok THEN DeleteById(r.attrId) ELSE attrs
           /\ sweep' = IF ok THEN DisturbSweep(r.cust) ELSE sweep
           /\ hs' = [f EXCEPT ![h] =
                 Respond([r EXCEPT !.writes = Append(@, "delete"),
                                   !.failed = @ \/ ~ok], 200, "demote")]
    /\ UNCHANGED popups
    /\ UNCHANGED <<now, group, nextId, processedWebhooks, timers,
                   recentlyQualified, delivered>>


\* Lines 356-380: the line items arrive; threshold; today's date; the date
\* upsert is issued.
ProductsResp(h, ok) ==
    /\ hs[h].pc = "products"
    /\ MayFail(ok)
    /\ failures' = Count(ok)
    /\ LET r == hs[h]
           totalQty == SumQuantities(Order(r.body.id).items)
           t == [r EXCEPT !.total = totalQty]
       IN  hs' = [hs EXCEPT ![h] =
                 IF ~ok
                 THEN Respond([r EXCEPT !.failed = TRUE], 500, "error")
                 ELSE IF ~Qualifies(totalQty)
                 THEN Respond(t, 200, "below")
                 ELSE Call([t EXCEPT !.today = TodayOf(now), !.qualAt = now,
                                     !.path = "requalify"], "setDate")]
    /\ UNCHANGED popups
    /\ UNCHANGED <<now, dirVars, processedWebhooks, timers, recentlyQualified,
                   delivered, sweep>>

\* Line 380, setQualifiedDate (178-197); then addToVIPGroup is issued (381)
SetDateResp(h, ok) ==
    /\ hs[h].pc = "setDate"
    /\ MayFail(ok)
    /\ failures' = Count(ok)
    /\ LET r == hs[h]
           f == IF ok THEN Disturb(hs, r.cust, h) ELSE hs
       IN  /\ attrs' = IF ok THEN Upsert(r.cust, r.today) ELSE attrs
           /\ nextId' = IF ok THEN NextIdAfterUpsert(r.cust) ELSE nextId
           /\ sweep' = IF ok THEN DisturbSweep(r.cust) ELSE sweep
           /\ hs' = [f EXCEPT ![h] =
                 Call([r EXCEPT !.writes = Append(@, "setDate"),
                                !.dateSuccess = ok,
                                !.failed = @ \/ ~ok], "addGroup")]
    /\ UNCHANGED popups
    /\ UNCHANGED <<now, group, processedWebhooks, timers, recentlyQualified,
                   delivered>>

\* Line 381, addToVIPGroup (220-236); lines 383-384 and 396-401
AddGroupResp(h, ok) ==
    /\ hs[h].pc = "addGroup"
    /\ MayFail(ok)
    /\ failures' = Count(ok)
    /\ LET r == [hs[h] EXCEPT !.writes = Append(@, "addGroup"),
                              !.groupSuccess = ok, !.failed = @ \/ ~ok]
           f == IF ok THEN Disturb(hs, r.cust, h) ELSE hs
       IN  /\ group' = IF ok THEN SetGroup(r.cust, VIP_GROUP_ID) ELSE group
           /\ sweep' = IF ok THEN DisturbSweep(r.cust) ELSE sweep
           /\ hs' = [f EXCEPT ![h] =
                 IF WritesSucceeded(r.dateSuccess, r.groupSuccess)
                 THEN [r EXCEPT !.pc = "delay"]
                 ELSE Respond(r, 200, "requalify")]
    /\ UNCHANGED popups
    /\ UNCHANGED <<now, attrs, nextId, processedWebhooks, timers,
                   recentlyQualified, delivered>>

\* Line 384: the 1000 ms timer fires; checkIfQualified is issued (385)
DelayDone(h) ==
    /\ hs[h].pc = "delay"
    /\ hs' = [hs EXCEPT ![h] = Call(@, "verify")]
    /\ UNCHANGED popups
    /\ UNCHANGED <<now, dirVars, processedWebhooks, timers, recentlyQualified,
                   delivered, sweep, failures>>

\* Lines 385-401 with checkIfQualified (156-159)
VerifyResp(h, ok) ==
    /\ hs[h].pc = "verify"
    /\ MayFail(ok)
    /\ failures' = Count(ok)
    /\ LET r == [hs[h] EXCEPT !.failed = @ \/ ~ok]
           attr == IF ok THEN FindQualificationAttribute(r.cust) ELSE NoRec
           verifyDate == CheckIfQualified(attr)
       IN  /\ recentlyQualified' =
                 IF verifyDate # EmptyValue
                 THEN [c \in DOMAIN recentlyQualified \cup {r.cust} |->
                          IF c = r.cust THEN now ELSE recentlyQualified[c]]
                 ELSE recentlyQualified
           /\ hs' = [hs EXCEPT ![h] =
                 Respond([r EXCEPT !.marked = verifyDate # EmptyValue],
                         200, "requalify")]
    /\ UNCHANGED popups
    /\ UNCHANGED <<now, dirVars, processedWebhooks, timers, delivered, sweep>>

\* --------------------------- app.post('/webhook', ...), single-use variant
\* The handler of lines 614-760 differs from the one above in its VIP
\* branch, which demotes without reading the date, and in its threshold.
SINGLE_USE_MIN_QUANTITY == 5

\* if (totalQty < MIN_QUANTITY) return, with the MIN_QUANTITY of line 467
SingleUseQualifies(total) == total >= SINGLE_USE_MIN_QUANTITY

\* a handler that goes on to the line items whatever the group
SingleUseIgnoresVip(vip) == "products"

\* if (isInVIPGroup) { removeFromVIPGroup ... return } else the line items
SingleUseBranch(vip) == IF vip THEN "remove" ELSE "products"

\* Lines 656-703: the customer arrives; in the VIP group the group removal
\* is issued at once, otherwise the line items are fetched.
SingleUseCustomerResp(h, ok) ==
    /\ hs[h].pc = "customer"
    /\ MayFail(ok)
    /\ failures' = Count(ok)
    /\ LET r == hs[h]
           vip == IsInVIPGroup(r.cust)
           next == SingleUseBranch(vip)
       IN  hs' = [hs EXCEPT ![h] =
                 IF ~ok
                 THEN Respond([r EXCEPT !.failed = TRUE], 500, "error")
                 ELSE Call([r EXCEPT !.vip = IF vip THEN "yes" ELSE "no",
                                     !.path = IF next = "remove" THEN "demote"
                                              ELSE @], next)]
    /\ UNCHANGED popups
    /\ UNCHANGED <<now, dirVars, processedWebhooks, timers, recentlyQualified,
                   delivered, sweep>>

\* Lines 703-726: the line items arrive; threshold; today's date; the date
\* upsert is issued.
SingleUseProductsResp(h, ok) ==
    /\ hs[h].pc = "products"
    /\ MayFail(ok)
    /\ failures' = Count(ok)
    /\ LET r == hs[h]
           totalQty == SumQuantities(Order(r.body.id).items)
           t == [r EXCEPT !.total = totalQty]
       IN  hs' = [hs EXCEPT ![h] =
                 IF ~ok
                 THEN Respond([r EXCEPT !.failed = TRUE], 500, "error")
                 ELSE IF ~SingleUseQualifies(totalQty)
                 THEN Respond(t, 200, "below")
                 ELSE Call([t EXCEPT !.today = TodayOf(now), !.qualAt = now,
                                     !.path = "requalify"], "setDate")]
    /\ UNCHANGED popups
    /\ UNCHANGED <<now, dirVars, processedWebhooks, timers, recentlyQualified,
                   delivered, sweep>>

\* ------------------------------- app.get('/api/just-qualified/:customerId')
\* Lines 75-84: the request arrives and the customer fetch is issued.
PopupCheck(c) ==
    /\ Polled < Cardinality(Polls)
    /\ popups' = [popups EXCEPT ![Polled + 1] =
                     [FreshPoll EXCEPT !.pc = "customer", !.cust = c]]
    /\ UNCHANGED <<now, dirVars, processedWebhooks, timers, recentlyQualified,
                   hs, delivered, sweep, failures>>

\* Lines 82-100: the customer arrives (or axios throws into the catch of
\* line 128); outside the VIP group the check is refused, otherwise
\* checkExpiry is issued.
PopupCustomerResp(p, ok) ==
    /\ popups[p].pc = "customer"
    /\ MayFail(ok)
    /\ failures' = Count(ok)
    /\ LET r == popups[p]
       IN  popups' = [popups EXCEPT ![p] =
                 IF ~ok
                 THEN Refuse([r EXCEPT !.failed = TRUE])
                 ELSE IF ~IsInVIPGroup(r.cust)
                 THEN Refuse(r)
                 ELSE [r EXCEPT !.pc = "expiry"]]
    /\ UNCHANGED <<now, dirVars, processedWebhooks, timers, recentlyQualified,
                   hs, delivered, sweep>>

\* Lines 100-126: checkExpiry returns (a failed read counts as expired);
\* the mark is looked up and deleted, and the response is sent.
PopupExpiryResp(p, ok) ==
    /\ popups[p].pc = "expiry"
    /\ MayFail(ok)
    /\ failures' = Count(ok)
    /\ LET r == [popups[p] EXCEPT !.failed = ~ok]
           attr == IF ok THEN FindQualificationAttribute(r.cust) ELSE NoRec
           expiry == CheckExpiry(attr, now)
           showPopup == r.cust \in DOMAIN recentlyQualified
       IN  IF expiry.qualifiedDate = EmptyValue \/ expiry.expired
           THEN /\ popups' = [popups EXCEPT ![p] = Refuse(r)]
                /\ UNCHANGED recentlyQualified
           ELSE /\ recentlyQualified' =
                      IF showPopup THEN MapDelete(recentlyQualified, r.cust)
                      ELSE recentlyQualified
                /\ popups' = [popups EXCEPT ![p] =
                      [r EXCEPT !.pc = "done", !.justQualified = showPopup,
                                !.isVIP = TRUE,
                                !.daysLeft = DaysLeft(expiry.qualifiedDate, now),
                                !.reached = TRUE]]
    /\ UNCHANGED <<now, dirVars, processedWebhooks, timers, hs, delivered, sweep>>

\* Lines 504-515, the endpoint of the second variant: the mark alone
\* decides, and there is no await.
MapOnlyCheck(c) ==
    /\ Polled < Cardinality(Polls)
    /\ LET qualified == c \in DOMAIN recentlyQualified
       IN  /\ recentlyQualified' =
                 IF qualified THEN MapDelete(recentlyQualified, c)
                 ELSE recentlyQualified
           /\ popups' = [popups EXCEPT ![Polled + 1] =
                 [FreshPoll EXCEPT !.pc = "done", !.cust = c,
                                   !.windowed = FALSE,
                                   !.justQualified = qualified,
                                   !.reached = TRUE]]
    /\ UNCHANGED <<now, dirVars, processedWebhooks, timers, hs, delivered,
                   sweep, failures>>

\* ------------------------------------------------ checkExpiredVIPCustomers
RECURSIVE SeqById(_)
\* the response lists the records in the order of their ids
SeqById(rs) ==
    IF rs = {} THEN <<>>
    ELSE LET m == LowestId(rs) IN <<m>> \o SeqById(rs \ {m})

\* allAttributes.filter(a => a.attribute_id === parseInt(DATE_ATTRIBUTE_ID)
\*                           && a.attribute_value)
AllWithValue(rs) == {a \in rs : a.attribute_value # EmptyValue}
QualifiedCustomers(rs) ==
    {a \in rs : a.attribute_id = DATE_ATTRIBUTE_ID /\ a.attribute_value # EmptyValue}

RECURSIVE NextExpired(_, _, _)
\* the for loop runs on without an await until a record has
\* daysDiff > DISCOUNT_DAYS; Len(list) + 1 when no record is left
NextExpired(list, i, t) ==
    IF i > Len(list) THEN i
    ELSE IF DaysDiffExceeds(list[i].attribute_value, t) THEN i
    ELSE NextExpired(list, i + 1, t)

\* a loop that issues the delete of a record without the group removal
LoopFromDeleteFirst(sw, i, t) ==
    LET j == NextExpired(sw.list, i, t)
    IN  IF j > Len(sw.list)
        THEN [sw EXCEPT !.pc = "idle", !.idx = j, !.endedAt = t]
        ELSE [sw EXCEPT !.pc = "delete", !.idx = j]

\* the loop from record i on: the next removeFromVIPGroup is issued, or the
\* pass ends
LoopFrom(sw, i, t) ==
    LET j == NextExpired(sw.list, i, t)
    IN  IF j > Len(sw.list)
        THEN [sw EXCEPT !.pc = "idle", !.idx = j, !.endedAt = t]
        ELSE [sw EXCEPT !.pc = "remove", !.idx = j]

\* setInterval(checkExpiredVIPCustomers, 24 h): the timer fires and the
\* list request is issued (258-264)
SweepStart ==
    /\ sweep.pc = "idle"
    /\ sweep' = [IdleSweep EXCEPT !.pc = "fetch", !.fetchedAt = now, !.endedAt = now]
    /\ UNCHANGED popups
    /\ UNCHANGED <<now, dirVars, processedWebhooks, timers, recentlyQualified,
                   hs, delivered, failures>>

\* Lines 262-278: the list arrives (or axios throws into the catch at 291)
SweepFetchResp(ok) ==
    /\ sweep.pc = "fetch"
    /\ MayFail(ok)
    /\ failures' = Count(ok)
    /\ sweep' = IF ~ok
                THEN [sweep EXCEPT !.pc = "idle", !.failed = TRUE, !.endedAt = now]
                ELSE LoopFrom([sweep EXCEPT !.list = SeqById(QualifiedCustomers(attrs)),
                                            !.snapshot = attrs,
                                            !.after = {h \in Handlers :
                                                          hs[h].pc = "done"},
                                            !.fetchedAt = now], 1, now)
    /\ UNCHANGED popups
    /\ UNCHANGED <<now, dirVars, processedWebhooks, timers, recentlyQualified,
                   hs, delivered>>

\* Line 278: removeFromVIPGroup returns (it swallows its error); the delete
\* of line 280 is issued
SweepRemoveResp(ok) ==
    /\ sweep.pc = "remove"
    /\ MayFail(ok)
    /\ failures' = Count(ok)
    /\ LET c == sweep.list[sweep.idx].customer_id
       IN  /\ group' = IF ok THEN SetGroup(c, 0) ELSE group
           /\ hs' = IF ok THEN Disturb(hs, c, 0) ELSE hs
           /\ sweep' = [sweep EXCEPT !.pc = "delete",
                                     !.writes = Append(@, <<c, "removeGroup">>),
                                     !.failed = @ \/ ~ok]
    /\ UNCHANGED popups
    /\ UNCHANGED <<now, attrs, nextId, processedWebhooks, timers,
                   recentlyQualified, delivered>>

\* Lines 280-285: the delete returns and the loop goes on; when axios.delete
\* throws, the catch of line 291 ends the pass
SweepDeleteResp(ok) ==
    /\ sweep.pc = "delete"
    /\ MayFail(ok)
    /\ failures' = Count(ok)
    /\ LET a == sweep.list[sweep.idx]
           sw == [sweep EXCEPT !.writes = Append(@, <<a.customer_id, "delete">>)]
       IN  /\ attrs' = IF ok THEN DeleteById(a.id) ELSE attrs
           /\ hs' = IF ok THEN Disturb(hs, a.customer_id, 0) ELSE hs
           /\ sweep' = IF ok
                       THEN LoopFrom(sw, sweep.idx + 1, now)
                       ELSE [sw EXCEPT !.pc = "idle", !.failed = TRUE,
                                       !.endedAt = now]
    /\ UNCHANGED popups
    /\ UNCHANGED <<now, group, nextId, processedWebhooks, timers,
                   recentlyQualified, delivered>>

\* ------------------------------------------- recentlyQualified cleanup
\* Date.now() of a tick, in seconds
SecondsPerDay == 86400
SecondsOf(t) == (t * SecondsPerDay) \div TicksPerDay

\* 10 * 60 * 1000 ms, in seconds
RECENT_WINDOW == 600

\* a cleanup that takes every mark as old
StaleAlways(timestamp, t) == TRUE

\* timestamp < expiry, where expiry = Date.now() - 10 * 60 * 1000
Stale(timestamp, t) == SecondsOf(timestamp) < SecondsOf(t) - RECENT_WINDOW

\* the callback of the setInterval of lines 412-420 (every 60 s): the
\* entries older than the window are deleted
Cleanup ==
    /\ recentlyQualified' =
          [c \in {d \in DOMAIN recentlyQualified :
                     ~Stale(recentlyQualified[d], now)} |-> recentlyQualified[c]]
    /\ UNCHANGED <<now, dirVars, processedWebhooks, timers, hs, delivered,
                   sweep, failures, popups>>

\* ------------------------------------------------------------------ clock
\* Date.now() advances by one tick.  A tick is far longer than the 60 s and
\* 1 s timers, which therefore fire before it.
Tick ==
    /\ now < DateToTime(StartDay) + MaxTicks
    /\ \A k \in Keys : timers[k] = 0
    /\ \A h \in Handlers : hs[h].pc # "delay"
    /\ now' = now + 1
    /\ UNCHANGED popups
    /\ UNCHANGED <<dirVars, processedWebhooks, timers, recentlyQualified, hs,
                   delivered, sweep, failures>>

Next ==
    \/ \E b \in Bodies : Receive(b)
    \/ \E k \in Keys : DedupTimeout(k)
    \/ \E h \in Handlers, ok \in BOOLEAN : OrderResp(h, ok)
    \/ \E h \in Handlers, ok \in BOOLEAN : CustomerResp(h, ok)
    \/ \E h \in Handlers, ok \in BOOLEAN : ExpiryResp(h, ok)
    \/ \E h \in Handlers, ok \in BOOLEAN : RemoveResp(h, ok)
    \/ \E h \in Handlers, ok \in BOOLEAN : LookupResp(h, ok)
    \/ \E h \in Handlers, ok \in BOOLEAN : DeleteResp(h, ok)
    \/ \E h \in Handlers, ok \in BOOLEAN : ProductsResp(h, ok)
    \/ \E h \in Handlers, ok \in BOOLEAN : SetDateResp(h, ok)
    \/ \E h \in Handlers, ok \in BOOLEAN : AddGroupResp(h, ok)
    \/ \E h \in Handlers : DelayDone(h)
    \/ \E h \in Handlers, ok \in BOOLEAN : VerifyResp(h, ok)
    \/ SweepStart
    \/ \E ok \in BOOLEAN : SweepFetchResp(ok)
    \/ \E ok \in BOOLEAN : SweepRemoveResp(ok)
    \/ \E ok \in BOOLEAN : SweepDeleteResp(ok)
    \/ \E c \in Customers : PopupCheck(c)
    \/ \E p \in Polls, ok \in BOOLEAN : PopupCustomerResp(p, ok)
    \/ \E p \in Polls, ok \in BOOLEAN : PopupExpiryResp(p, ok)
    \/ Cleanup
    \/ Tick

Spec == Init /\ [][Next]_vars

\* ------------------------------------------------- the webhook path alone
\* The start-up pass has ended and the 24 h timer does not fire: order
\* events alone act on the directory.
InitWebhook ==
    /\ \E p1 \in Profiles, p2 \in {Unqualified} :
          InitWith([c \in Customers |-> IF c = 1 THEN p1 ELSE p2])
    /\ sweep = IdleSweep

NextWebhook ==
    \/ \E b \in Bodies : Receive(b)
    \/ \E k \in Keys : DedupTimeout(k)
    \/ \E h \in Handlers, ok \in BOOLEAN : OrderResp(h, ok)
    \/ \E h \in Handlers, ok \in BOOLEAN : CustomerResp(h, ok)
    \/ \E h \in Handlers, ok \in BOOLEAN : ExpiryResp(h, ok)
    \/ \E h \in Handlers, ok \in BOOLEAN : RemoveResp(h, ok)
    \/ \E h \in Handlers, ok \in BOOLEAN : LookupResp(h, ok)
    \/ \E h \in Handlers, ok \in BOOLEAN : DeleteResp(h, ok)
    \/ \E h \in Handlers, ok \in BOOLEAN : ProductsResp(h, ok)
    \/ \E h \in Handlers, ok \in BOOLEAN : SetDateResp(h, ok)
    \/ \E h \in Handlers, ok \in BOOLEAN : AddGroupResp(h, ok)
    \/ \E h \in Handlers : DelayDone(h)
    \/ \E h \in Handlers, ok \in BOOLEAN : VerifyResp(h, ok)
    \/ Tick

SpecWebhook == InitWebhook /\ [][NextWebhook]_vars

\* ---------------------------------------------------------- the sweep alone
\* No order event arrives: the sweep alone acts on the directory.
NextSweep ==
    \/ SweepStart
    \/ \E ok \in BOOLEAN : SweepFetchResp(ok)
    \/ \E ok \in BOOLEAN : SweepRemoveResp(ok)
    \/ \E ok \in BOOLEAN : SweepDeleteResp(ok)
    \/ Tick

SpecSweep == Init /\ [][NextSweep]_vars

\* The 24 h timer keeps firing and every call that was issued returns.  A
\* call fails at most MaxFailures times in a behaviour, so every kind of
\* call succeeds when a later pass attempts it again.
SpecSweepFair ==
    /\ SpecSweep
    /\ WF_vars(SweepStart)
    /\ WF_vars(\E ok \in BOOLEAN : SweepFetchResp(ok))
    /\ WF_vars(\E ok \in BOOLEAN : SweepRemoveResp(ok))
    /\ WF_vars(\E ok \in BOOLEAN : SweepDeleteResp(ok))

\* ------------------------------------------ order events beside the sweep
\* Order events of customer 1 arrive while the sweep runs: two deliveries of
\* a qualifying order, told apart by their creation time.  The
\* directory is consistent at the start: a customer is in the VIP group
\* exactly when it has a dated record.  All of it happens within one tick
\* of the clock.
RaceBodies ==
    {Body(OrderCreated, TRUE, 1, 1), Body(OrderCreated, TRUE, 1, 2)}

InitBoth ==
    /\ \E p1 \in {Unqualified, VipExpired, VipAtEdge},
          p2 \in {VipExpired} :
          InitWith([c \in Customers |-> IF c = 1 THEN p1 ELSE p2])
    /\ sweep = [IdleSweep EXCEPT !.pc = "fetch", !.fetchedAt = now, !.endedAt = now]

NextBoth ==
    \/ \E b \in RaceBodies : Receive(b)
    \/ \E k \in Keys : DedupTimeout(k)
    \/ \E h \in Handlers, ok \in BOOLEAN : OrderResp(h, ok)
    \/ \E h \in Handlers, ok \in BOOLEAN : CustomerResp(h, ok)
    \/ \E h \in Handlers, ok \in BOOLEAN : ExpiryResp(h, ok)
    \/ \E h \in Handlers, ok \in BOOLEAN : RemoveResp(h, ok)
    \/ \E h \in Handlers, ok \in BOOLEAN : LookupResp(h, ok)
    \/ \E h \in Handlers, ok \in BOOLEAN : DeleteResp(h, ok)
    \/ \E h \in Handlers, ok \in BOOLEAN : ProductsResp(h, ok)
    \/ \E h \in Handlers, ok \in BOOLEAN : SetDateResp(h, ok)
    \/ \E h \in Handlers, ok \in BOOLEAN : AddGroupResp(h, ok)
    \/ \E h \in Handlers : DelayDone(h)
    \/ \E h \in Handlers, ok \in BOOLEAN : VerifyResp(h, ok)
    \/ SweepStart
    \/ \E ok \in BOOLEAN : SweepFetchResp(ok)
    \/ \E ok \in BOOLEAN : SweepRemoveResp(ok)
    \/ \E ok \in BOOLEAN : SweepDeleteResp(ok)

SpecBoth == InitBoth /\ [][NextBoth]_vars

\* ------------------------------------------- order events and popup checks
\* Customer 1 is outside the VIP group, or in it with an expired date, and
\* places a qualifying order that is delivered twice; customer 2 is an
\* active VIP.  The store front polls the
\* popup endpoint, of the first variant or of the second.  The remote calls
\* of the order events succeed; those of the popup checks may fail.  All of
\* it happens within one tick of the clock and within the 60 s of the dedup
\* timers.
InitPopup ==
    /\ \E p1 \in {Unqualified, VipExpired} :
          InitWith([c \in Customers |-> IF c = 1 THEN p1 ELSE VipAtEdge])
    /\ sweep = IdleSweep

NextPopup ==
    \/ \E b \in RaceBodies : Receive(b)
    \/ \E h \in Handlers : OrderResp(h, TRUE)
    \/ \E h \in Handlers : CustomerResp(h, TRUE)
    \/ \E h \in Handlers : ExpiryResp(h, TRUE)
    \/ \E h \in Handlers : RemoveResp(h, TRUE)
    \/ \E h \in Handlers : LookupResp(h, TRUE)
    \/ \E h \in Handlers : DeleteResp(h, TRUE)
    \/ \E h \in Handlers : ProductsResp(h, TRUE)
    \/ \E h \in Handlers : SetDateResp(h, TRUE)
    \/ \E h \in Handlers : AddGroupResp(h, TRUE)
    \/ \E h \in Handlers : DelayDone(h)
    \/ \E h \in Handlers : VerifyResp(h, TRUE)
    \/ \E c \in Customers : PopupCheck(c)
    \/ \E p \in Polls, ok \in BOOLEAN : PopupCustomerResp(p, ok)
    \/ \E p \in Polls, ok \in BOOLEAN : PopupExpiryResp(p, ok)
    \/ \E c \in Customers : MapOnlyCheck(c)

SpecPopup == InitPopup /\ [][NextPopup]_vars

\* ------------------------------------------- one customer's life, in turn
\* Order events of customer 1 and sweep passes follow one another: a
\* delivery arrives, and the 24 h timer fires, only while nothing else is
\* in flight.  Between them the clock may run past the discount window;
\* it does not advance otherwise.
SeasonTicks == (DISCOUNT_DAYS + 1) * TicksPerDay

Quiet ==
    /\ \A h \in Handlers : hs[h].pc \in {"none", "done"}
    /\ sweep.pc = "idle"

\* Date.now() advances by more than DISCOUNT_DAYS days
Elapse ==
    /\ Quiet
    /\ now + SeasonTicks <= DateToTime(StartDay) + MaxTicks + MaxSeasons * SeasonTicks
    /\ \A k \in Keys : timers[k] = 0
    /\ now' = now + SeasonTicks
    /\ UNCHANGED <<dirVars, processedWebhooks, timers, recentlyQualified, hs,
                   delivered, sweep, failures, popups>>

InitSerial ==
    /\ \E p1 \in {Unqualified, VipExpired} :
          InitWith([c \in Customers |-> IF c = 1 THEN p1 ELSE Unqualified])
    /\ sweep = [IdleSweep EXCEPT !.pc = "fetch", !.fetchedAt = now, !.endedAt = now]

NextSerial ==
    \/ Quiet /\ \E b \in RaceBodies : Receive(b)
    \/ \E k \in Keys : DedupTimeout(k)
    \/ \E h \in Handlers, ok \in BOOLEAN : OrderResp(h, ok)
    \/ \E h \in Handlers, ok \in BOOLEAN : CustomerResp(h, ok)
    \/ \E h \in Handlers, ok \in BOOLEAN : ExpiryResp(h, ok)
    \/ \E h \in Handlers, ok \in BOOLEAN : RemoveResp(h, ok)
    \/ \E h \in Handlers, ok \in BOOLEAN : LookupResp(h, ok)
    \/ \E h \in Handlers, ok \in BOOLEAN : DeleteResp(h, ok)
    \/ \E h \in Handlers, ok \in BOOLEAN : ProductsResp(h, ok)
    \/ \E h \in Handlers, ok \in BOOLEAN : SetDateResp(h, ok)
    \/ \E h \in Handlers, ok \in BOOLEAN : AddGroupResp(h, ok)
    \/ \E h \in Handlers : DelayDone(h)
    \/ \E h \in Handlers, ok \in BOOLEAN : VerifyResp(h, ok)
    \/ Quiet /\ SweepStart
    \/ \E ok \in BOOLEAN : SweepFetchResp(ok)
    \/ \E ok \in BOOLEAN : SweepRemoveResp(ok)
    \/ \E ok \in BOOLEAN : SweepDeleteResp(ok)
    \/ Elapse

SpecSerial == InitSerial /\ [][NextSerial]_vars

\* Every call that was issued returns, the 1 s delay ends, and the 24 h
\* timer keeps firing.
SpecSerialFair ==
    /\ SpecSerial
    /\ \A h \in Handlers :
          /\ WF_vars(\E ok \in BOOLEAN : OrderResp(h, ok))
          /\ WF_vars(\E ok \in BOOLEAN : CustomerResp(h, ok))
          /\ WF_vars(\E ok \in BOOLEAN : ExpiryResp(h, ok))
          /\ WF_vars(\E ok \in BOOLEAN : RemoveResp(h, ok))
          /\ WF_vars(\E ok \in BOOLEAN : LookupResp(h, ok))
          /\ WF_vars(\E ok \in BOOLEAN : DeleteResp(h, ok))
          /\ WF_vars(\E ok \in BOOLEAN : ProductsResp(h, ok))
          /\ WF_vars(\E ok \in BOOLEAN : SetDateResp(h, ok))
          /\ WF_vars(\E ok \in BOOLEAN : AddGroupResp(h, ok))
          /\ WF_vars(DelayDone(h))
          /\ WF_vars(\E ok \in BOOLEAN : VerifyResp(h, ok))
    /\ WF_vars(Quiet /\ SweepStart)
    /\ WF_vars(\E ok \in BOOLEAN : SweepFetchResp(ok))
    /\ WF_vars(\E ok \in BOOLEAN : SweepRemoveResp(ok))
    /\ WF_vars(\E ok \in BOOLEAN : SweepDeleteResp(ok))

\* ------------------------------------------------ deliveries and the dedup set
\* Deliveries of any body arrive, their remote calls succeed, and the 60 s
\* timers fire; the clock ticks between them.
InitDedup ==
    /\ \E p1 \in {Unqualified, VipExpired} :
          InitWith([c \in Customers |-> IF c = 1 THEN p1 ELSE Unqualified])
    /\ sweep = IdleSweep

NextDedup ==
    \/ \E b \in Bodies : Receive(b)
    \/ \E k \in Keys : DedupTimeout(k)
    \/ \E h \in Handlers : OrderResp(h, TRUE)
    \/ \E h \in Handlers : CustomerResp(h, TRUE)
    \/ \E h \in Handlers : ExpiryResp(h, TRUE)
    \/ \E h \in Handlers : RemoveResp(h, TRUE)
    \/ \E h \in Handlers : LookupResp(h, TRUE)
    \/ \E h \in Handlers : DeleteResp(h, TRUE)
    \/ \E h \in Handlers : ProductsResp(h, TRUE)
    \/ \E h \in Handlers : SetDateResp(h, TRUE)
    \/ \E h \in Handlers : AddGroupResp(h, TRUE)
    \/ \E h \in Handlers : DelayDone(h)
    \/ \E h \in Handlers : VerifyResp(h, TRUE)
    \/ Tick

SpecDedup == InitDedup /\ [][NextDedup]_vars

\* every 60 s timer that was set fires
SpecDedupFair ==
    /\ SpecDedup
    /\ \A k \in Keys : WF_vars(DedupTimeout(k))

\* ------------------------------------------------ the life of a recency mark
\* Customer 1, outside the VIP group, places a qualifying order that is
\* delivered twice, the store front polls the popup endpoint once for that
\* customer, the cleanup interval fires, and the clock ticks.  The remote
\* calls succeed; no date expires within the ticks of the clock, so no
\* delivery takes the Demote path.
InitRecency ==
    /\ InitWith([c \in Customers |-> Unqualified])
    /\ sweep = IdleSweep

NextRecency ==
    \/ \E b \in RaceBodies : Receive(b)
    \/ \E k \in Keys : DedupTimeout(k)
    \/ \E h \in Handlers : OrderResp(h, TRUE)
    \/ \E h \in Handlers : CustomerResp(h, TRUE)
    \/ \E h \in Handlers : ExpiryResp(h, TRUE)
    \/ \E h \in Handlers : ProductsResp(h, TRUE)
    \/ \E h \in Handlers : SetDateResp(h, TRUE)
    \/ \E h \in Handlers : AddGroupResp(h, TRUE)
    \/ \E h \in Handlers : DelayDone(h)
    \/ \E h \in Handlers : VerifyResp(h, TRUE)
    \/ Polled = 0 /\ PopupCheck(1)
    \/ PopupCustomerResp(1, TRUE)
    \/ PopupExpiryResp(1, TRUE)
    \/ Cleanup
    \/ Tick

SpecRecency == InitRecency /\ [][NextRecency]_vars

\* the cleanup interval keeps firing, time passes, and the 60 s and 1 s
\* timers fire
SpecRecencyFair ==
    /\ SpecRecency
    /\ WF_vars(Cleanup)
    /\ WF_vars(Tick)
    /\ \A k \in Keys : WF_vars(DedupTimeout(k))
    /\ \A h \in Handlers : WF_vars(DelayDone(h))

\* ------------------------------------------------ the single-use handler
\* Deliveries of any body are processed by the handler of the second
\* variant; customer 2 is in the VIP group with a date that has not
\* expired.  The sweep does not run and the clock stands.
InitSingleUse ==
    /\ \E p1 \in Profiles :
          InitWith([c \in Customers |-> IF c = 1 THEN p1 ELSE VipAtEdge])
    /\ sweep = IdleSweep

NextSingleUse ==
    \/ \E b \in Bodies : Receive(b)
    \/ \E h \in Handlers, ok \in BOOLEAN : OrderResp(h, ok)
    \/ \E h \in Handlers, ok \in BOOLEAN : SingleUseCustomerResp(h, ok)
    \/ \E h \in Handlers, ok \in BOOLEAN : RemoveResp(h, ok)
    \/ \E h \in Handlers, ok \in BOOLEAN : LookupResp(h, ok)
    \/ \E h \in Handlers, ok \in BOOLEAN : DeleteResp(h, ok)
    \/ \E h \in Handlers, ok \in BOOLEAN : SingleUseProductsResp(h, ok)
    \/ \E h \in Handlers, ok \in BOOLEAN : SetDateResp(h, ok)
    \/ \E h \in Handlers, ok \in BOOLEAN : AddGroupResp(h, ok)
    \/ \E h \in Handlers : DelayDone(h)
    \/ \E h \in Handlers, ok \in BOOLEAN : VerifyResp(h, ok)

SpecSingleUse == InitSingleUse /\ [][NextSingleUse]_vars


\* =================================================================== claims
\* the qualification-date records of customer c among the records a
ClaimRecordsIn(a, c) ==
    {r \in a : r.customer_id = c /\ r.attribute_id = DATE_ATTRIBUTE_ID}
ClaimRecords(c) == ClaimRecordsIn(attrs, c)

\* age of a date at instant t, and the discount window, both in ticks
AgeTicks(value, t) == t - value * TicksPerDay
WindowTicks == DISCOUNT_DAYS * TicksPerDay

\* the sum of the quantities of an order's line items
ClaimTotal(items) ==
    LET sum[i \in 0..Len(items)] == IF i = 0 THEN 0 ELSE sum[i - 1] + items[i]
    IN  sum[Len(items)]

\* the identity of a delivery: (scope, data.id, created_at)
ClaimKey(b) == <<b.scope, IF b.hasData THEN b.id ELSE NoId, b.created_at>>

IsOrderEvent(b) == b.scope = OrderCreated /\ b.hasData /\ b.id \in OrderIds

\* C1: an order event of a registered customer read as not in the VIP group,
\* whose line items were fetched, issues the date upsert and then the group
\* add exactly when the sum of its quantities is >= MIN_QUANTITY; below the
\* threshold (MIN_QUANTITY - 1, or no line item at all) it issues no write.
C1_ThresholdInclusive ==
    \A h \in Handlers :
        hs[h].vip = "no" =>
            LET q == ClaimTotal(Order(hs[h].body.id).items)
            IN  /\ q < MIN_QUANTITY => hs[h].writes = <<>>
                /\ (q >= MIN_QUANTITY /\ hs[h].pc = "done" /\ hs[h].status = 200)
                      => hs[h].writes = <<"setDate", "addGroup">>

C1_Witness ==
    \E h1, h2 \in Handlers :
        /\ hs[h1].pc = "done" /\ hs[h1].vip = "no"
        /\ ClaimTotal(Order(hs[h1].body.id).items) = MIN_QUANTITY
        /\ hs[h1].writes = <<"setDate", "addGroup">>
        /\ hs[h2].pc = "done" /\ hs[h2].vip = "no" /\ hs[h2].status = 200
        /\ Order(hs[h2].body.id).items = <<>>
        /\ hs[h2].writes = <<>>

\* C2: an order event whose order has customer_id absent or 0 issues no
\* directory write whatever its quantity, makes no call after the order
\* fetch, leaves no recency mark, and is answered 200 once the order is read.
C2_GuestInert ==
    /\ DOMAIN recentlyQualified \subseteq Customers
    /\ \A h \in Handlers :
          (/\ hs[h].pc # "none"
           /\ IsOrderEvent(hs[h].body)
           /\ Order(hs[h].body.id).customer_id \in {0, NoCustomer})
          => /\ hs[h].writes = <<>>
             /\ hs[h].calls <= 1
             /\ hs[h].pc \in {"order", "done"}
             /\ (hs[h].pc = "done" /\ ~hs[h].failed) => hs[h].status = 200

C2_Witness ==
    \E h \in Handlers :
        /\ hs[h].pc = "done" /\ hs[h].status = 200 /\ hs[h].calls = 1
        /\ IsOrderEvent(hs[h].body)
        /\ Order(hs[h].body.id).customer_id = 0
        /\ ClaimTotal(Order(hs[h].body.id).items) = 10000
        /\ hs[h].writes = <<>>

\* C3: when checkExpiry reads, for a customer read as VIP, a stored date at
\* most DISCOUNT_DAYS days before now (exactly 90 days included), the handler
\* ends there with 200 and no write: group, records and marks are unchanged.
C3_ActiveNoAction ==
    [][\A h \in Handlers :
          (/\ hs[h].pc = "expiry" /\ hs'[h].pc # "expiry"
           /\ failures' = failures
           /\ \E r \in ClaimRecords(hs[h].cust) :
                 /\ r.attribute_value # EmptyValue
                 /\ AgeTicks(r.attribute_value, now) <= WindowTicks)
          => /\ hs'[h].pc = "done" /\ hs'[h].status = 200
             /\ hs'[h].writes = <<>>
             /\ group' = group /\ attrs' = attrs
             /\ recentlyQualified' = recentlyQualified]_vars

C3_Witness ==
    \E h \in Handlers :
        /\ hs[h].pc = "done" /\ hs[h].path = "active" /\ hs[h].status = 200
        /\ ClaimTotal(Order(hs[h].body.id).items) >= MIN_QUANTITY
        /\ group[hs[h].cust] = VIP_GROUP_ID
        /\ \E r \in ClaimRecords(hs[h].cust) :
              AgeTicks(r.attribute_value, now) = WindowTicks

\* C4: when checkExpiry reads, for a customer read as VIP, a stored date more
\* than DISCOUNT_DAYS days before now, the handler goes on to remove the
\* group; when it ends, with no failed call and no other writer on that
\* customer meanwhile, the group is 0, no qualification-date record is left,
\* the only writes were the group removal and the delete, and the line items
\* were never summed.
C4_ExpiredDemoted ==
    [][\A h \in Handlers :
          /\ (/\ hs[h].pc = "expiry" /\ hs'[h].pc # "expiry"
              /\ failures' = failures
              /\ \E r \in ClaimRecords(hs[h].cust) :
                    /\ r.attribute_value # EmptyValue
                    /\ AgeTicks(r.attribute_value, now) > WindowTicks)
             => hs'[h].pc = "remove"
          /\ (/\ hs[h].pc # "done" /\ hs'[h].pc = "done"
              /\ hs'[h].seen = "dated" /\ hs'[h].path = "demote"
              /\ ~hs'[h].failed /\ ~hs'[h].interfered)
             => /\ group'[hs[h].cust] = 0
                /\ ClaimRecordsIn(attrs', hs[h].cust) = {}
                /\ hs'[h].writes = <<"removeGroup", "delete">>
                /\ hs'[h].status = 200
                /\ hs'[h].total = 0]_vars

C4_Witness ==
    \E h \in Handlers :
        /\ hs[h].pc = "done" /\ hs[h].path = "demote" /\ hs[h].seen = "dated"
        /\ ~hs[h].failed /\ ~hs[h].interfered
        /\ ClaimTotal(Order(hs[h].body.id).items) >= MIN_QUANTITY
        /\ group[hs[h].cust] = 0
        /\ ClaimRecords(hs[h].cust) = {}
        /\ hs[h].writes = <<"removeGroup", "delete">>


\* C5 as stated: a customer read as VIP whose qualification-date record is
\* missing or has an empty value is demoted, the delete step finds no record
\* (so the group removal is the only write), and the answer is 200.
C5_DeleteFindsNothing ==
    [][\A h \in Handlers :
          (/\ hs[h].pc # "done" /\ hs'[h].pc = "done"
           /\ hs'[h].vip = "yes" /\ hs'[h].seen \in {"null", "empty"}
           /\ ~hs'[h].failed /\ ~hs'[h].interfered)
          => /\ group'[hs[h].cust] = 0
             /\ hs'[h].writes = <<"removeGroup">>
             /\ hs'[h].status = 200]_vars

\* C5 amended: a customer read as VIP whose qualification-date record is
\* missing or has an empty value is taken as expired: the group removal is
\* issued, and when the handler ends (no failed call, no other writer on the
\* customer) the group is 0, no qualification-date record is left and the
\* answer is 200.  With no record the lookup finds nothing and the group
\* removal is the only write; a record with an empty value is found by the
\* lookup and deleted.
C5_MissingDateDemoted ==
    [][\A h \in Handlers :
          /\ (/\ hs[h].pc = "expiry" /\ hs'[h].pc # "expiry"
              /\ failures' = failures
              /\ \A r \in ClaimRecords(hs[h].cust) :
                    r.attribute_value = EmptyValue)
             => hs'[h].pc = "remove"
          /\ (/\ hs[h].pc # "done" /\ hs'[h].pc = "done"
              /\ hs'[h].vip = "yes" /\ hs'[h].seen \in {"null", "empty"}
              /\ ~hs'[h].failed /\ ~hs'[h].interfered)
             => /\ group'[hs[h].cust] = 0
                /\ ClaimRecordsIn(attrs', hs[h].cust) = {}
                /\ hs'[h].status = 200
                /\ hs'[h].writes = IF hs'[h].seen = "null"
                                   THEN <<"removeGroup">>
                                   ELSE <<"removeGroup", "delete">>]_vars

C5_Witness ==
    \E h \in Handlers :
        /\ hs[h].pc = "done" /\ hs[h].vip = "yes" /\ hs[h].seen = "empty"
        /\ hs[h].status = 200
        /\ ~hs[h].failed /\ ~hs[h].interfered
        /\ hs[h].writes = <<"removeGroup", "delete">>
        /\ group[hs[h].cust] = 0 /\ ClaimRecords(hs[h].cust) = {}

\* the same with no record at all: the lookup finds nothing to delete
C5_WitnessNoRecord ==
    \E h \in Handlers :
        /\ hs[h].pc = "done" /\ hs[h].vip = "yes" /\ hs[h].seen = "null"
        /\ hs[h].status = 200
        /\ ~hs[h].failed /\ ~hs[h].interfered
        /\ hs[h].writes = <<"removeGroup">>
        /\ group[hs[h].cust] = 0 /\ ClaimRecords(hs[h].cust) = {}

\* C6: a delivery that arrives while the 60 s window of an accepted delivery
\* with the same (scope, data.id, created_at) is open, wherever that one's
\* handler stands, is answered 200 at once with no remote call and no
\* write; a delivery that finds no such open window is taken for
\* processing and opens its own window.
C6_DedupWithinWindow ==
    [][\A h \in Handlers :
          (hs[h].pc = "none" /\ hs'[h].pc # "none") =>
             LET b == hs'[h].body
                 open == \E k \in Handlers :
                            /\ hs[k].win = "open"
                            /\ ClaimKey(hs[k].body) = ClaimKey(b)
             IN  IF open
                 THEN /\ hs'[h].pc = "done" /\ hs'[h].status = 200
                      /\ hs'[h].calls = 0 /\ hs'[h].writes = <<>>
                      /\ hs'[h].win = "none"
                      /\ group' = group /\ attrs' = attrs
                 ELSE /\ hs'[h].win = "open"
                      /\ hs'[h].path # "duplicate"
                      /\ IsOrderEvent(b) => (hs'[h].pc = "order" /\ hs'[h].calls = 1)]_vars

C6_Witness ==
    \E h1, h2 \in Handlers :
        /\ h1 # h2
        /\ ClaimKey(hs[h1].body) = ClaimKey(hs[h2].body)
        /\ hs[h1].win = "open" /\ hs[h1].pc \notin {"none", "done"}
        /\ hs[h1].writes # <<>>
        /\ hs[h2].pc = "done" /\ hs[h2].path = "duplicate"
        /\ hs[h2].status = 200 /\ hs[h2].calls = 0

\* the same delivery again after the window has closed is processed again
C6_WitnessAfterWindow ==
    \E h1, h2 \in Handlers :
        /\ h1 # h2
        /\ ClaimKey(hs[h1].body) = ClaimKey(hs[h2].body)
        /\ hs[h1].win = "closed" /\ hs[h1].calls > 0
        /\ hs[h2].win = "open" /\ hs[h2].calls > 0

\* C10: when the group add returns success after the date upsert returned
\* success (no other writer on the customer meanwhile), the customer's group
\* is VIP_GROUP_ID and its one qualification-date record holds the calendar
\* day of the instant the order was found to qualify.
C10_RequalifyToday ==
    [][\A h \in Handlers :
          (/\ hs[h].pc = "addGroup" /\ hs'[h].pc # "addGroup"
           /\ hs[h].dateSuccess /\ failures' = failures
           /\ ~hs'[h].interfered)
          => LET rs == ClaimRecordsIn(attrs', hs[h].cust)
             IN  /\ group'[hs[h].cust] = VIP_GROUP_ID
                 /\ Cardinality(rs) = 1
                 /\ \A r \in rs :
                       /\ r.attribute_value * TicksPerDay <= hs[h].qualAt
                       /\ hs[h].qualAt < (r.attribute_value + 1) * TicksPerDay]_vars

C10_Witness ==
    \E h \in Handlers :
        /\ hs[h].pc = "done" /\ hs[h].dateSuccess /\ hs[h].groupSuccess
        /\ ~hs[h].interfered
        /\ hs[h].qualAt > StartDay * TicksPerDay
        /\ group[hs[h].cust] = VIP_GROUP_ID
        /\ \E r \in ClaimRecords(hs[h].cust) :
              r.attribute_value = hs[h].qualAt \div TicksPerDay


\* the qualification-date records with a value that the pass was given
SweepDated ==
    {r \in sweep.snapshot :
        r.attribute_id = DATE_ATTRIBUTE_ID /\ r.attribute_value # EmptyValue}

SweepWrote(c, op) ==
    \E i \in 1..Len(sweep.writes) : sweep.writes[i] = <<c, op>>

SweepWroteFor(c) ==
    \E i \in 1..Len(sweep.writes) : sweep.writes[i][1] = c

\* C7: after a pass in which no call failed, every record with a value that
\* was more than DISCOUNT_DAYS days old when the list was read has its
\* customer in group 0 and is deleted; for a customer whose record is at most
\* DISCOUNT_DAYS days old when the pass ends, has an empty value or does not
\* exist, the pass issued no write.
C7_SweepDemotesExpiredOnly ==
    (sweep.pc = "idle" /\ ~sweep.failed) =>
        /\ \A r \in SweepDated :
              AgeTicks(r.attribute_value, sweep.fetchedAt) > WindowTicks
              => /\ group[r.customer_id] = 0
                 /\ \A a \in attrs : a.id # r.id
                 /\ SweepWrote(r.customer_id, "removeGroup")
                 /\ SweepWrote(r.customer_id, "delete")
        /\ \A c \in Customers :
              (\A r \in SweepDated :
                  r.customer_id = c =>
                     AgeTicks(r.attribute_value, sweep.endedAt) <= WindowTicks)
              => ~SweepWroteFor(c)

C7_Witness ==
    /\ sweep.pc = "idle" /\ ~sweep.failed
    /\ sweep.endedAt = StartDay * TicksPerDay
    /\ \E r1, r2 \in SweepDated :
          /\ AgeTicks(r1.attribute_value, sweep.fetchedAt) > WindowTicks
          /\ group[r1.customer_id] = 0
          /\ ClaimRecords(r1.customer_id) = {}
          /\ AgeTicks(r2.attribute_value, sweep.endedAt) = WindowTicks
          /\ ~SweepWroteFor(r2.customer_id)
          /\ group[r2.customer_id] = VIP_GROUP_ID
          /\ r2 \in attrs

\* C8: a customer in the VIP group whose qualification date is more than
\* DISCOUNT_DAYS days old, and who places no order, is eventually out of the
\* VIP group and without a qualification-date record, by the sweeps alone.
C8_SweepBackstop ==
    \A c \in Customers :
        (/\ group[c] = VIP_GROUP_ID
         /\ \E r \in ClaimRecords(c) :
               /\ r.attribute_value # EmptyValue
               /\ AgeTicks(r.attribute_value, now) > WindowTicks)
        ~> (group[c] # VIP_GROUP_ID /\ ClaimRecords(c) = {})

\* C9: when a pass has ended, the demotion of every record of its list that
\* was expired when the list was read has been attempted, whatever call
\* failed for another customer.
C9_SweepContinuesPastFailure ==
    sweep.pc = "idle" =>
        \A i \in 1..Len(sweep.list) :
            AgeTicks(sweep.list[i].attribute_value, sweep.fetchedAt) > WindowTicks
            => SweepWrote(sweep.list[i].customer_id, "removeGroup")


\* C11: a Requalify applied to a customer whose only qualification-date
\* record already holds the same day changes nothing: the date write leaves
\* the records (and the directory's id counter) as they were, exactly one
\* record with that day, and the group write on a customer already in the
\* VIP group leaves the groups as they were.
C11_RequalifyIdempotent ==
    [][\A h \in Handlers :
          LET c == hs[h].cust
          IN  /\ (/\ hs[h].pc = "setDate" /\ hs'[h].pc = "addGroup"
                  /\ hs'[h].dateSuccess
                  /\ \E r \in ClaimRecords(c) :
                        /\ ClaimRecords(c) = {r}
                        /\ r.attribute_value = hs[h].today)
                 => /\ attrs' = attrs
                    /\ nextId' = nextId
                    /\ \E r \in ClaimRecordsIn(attrs', c) :
                          /\ ClaimRecordsIn(attrs', c) = {r}
                          /\ r.attribute_value = hs[h].today
              /\ (/\ hs[h].pc = "addGroup" /\ hs'[h].pc # "addGroup"
                  /\ hs'[h].groupSuccess
                  /\ group[c] = VIP_GROUP_ID)
                 => group' = group]_vars

C11_Witness ==
    /\ \A h \in Handlers :
          /\ hs[h].pc = "done" /\ hs[h].cust = 1 /\ hs[h].path = "requalify"
          /\ hs[h].writes = <<"setDate", "addGroup">>
          /\ hs[h].dateSuccess /\ hs[h].groupSuccess
          /\ hs[h].today = StartDay
    /\ group[1] = VIP_GROUP_ID
    /\ \E r \in ClaimRecords(1) :
          ClaimRecords(1) = {r} /\ r.attribute_value = StartDay


\* C12: in every reachable state, whatever order events and sweep passes
\* have interleaved, each customer has at most one qualification-date
\* record of the configured attribute.
C12_AtMostOneRecord ==
    \A c \in Customers : Cardinality(ClaimRecords(c)) <= 1

C12_Witness ==
    /\ \A h \in Handlers :
          /\ hs[h].cust = 1 /\ hs[h].dateSuccess
          /\ hs[h].writes = <<"setDate", "addGroup">>
    /\ sweep.pc = "idle" /\ SweepWrote(2, "delete")
    /\ Cardinality(ClaimRecords(1)) = 1


\* popup checks of customer c answered justQualified = true, and marks set
\* for c, among the invocations pp and hh
TrueChecks(pp, c) ==
    {p \in Polls : pp[p].pc = "done" /\ pp[p].cust = c /\ pp[p].justQualified}
MarksSet(hh, c) ==
    {h \in Handlers : hh[h].marked /\ hh[h].cust = c}

\* C13: a popup check for customer c that gets to the recency map answers
\* justQualified = true exactly when c is marked, leaves c unmarked (so the
\* next check for c answers false unless c was marked again), and leaves the
\* marks of the other customers as they were; c is never answered true more
\* often than it was marked.
C13_RecencyOneShot ==
    [][/\ \A p \in Polls :
            LET c == popups'[p].cust
            IN  (/\ popups[p].pc # "done" /\ popups'[p].pc = "done"
                 /\ popups'[p].reached)
                => /\ popups'[p].justQualified = (c \in DOMAIN recentlyQualified)
                   /\ c \notin DOMAIN recentlyQualified'
                   /\ \A d \in DOMAIN recentlyQualified \ {c} :
                         /\ d \in DOMAIN recentlyQualified'
                         /\ recentlyQualified'[d] = recentlyQualified[d]
       /\ \A c \in Customers :
            Cardinality(TrueChecks(popups', c)) <= Cardinality(MarksSet(hs', c))
      ]_vars

C13_Witness ==
    /\ Cardinality(MarksSet(hs, 1)) = 1
    /\ \A h \in Handlers : hs[h].pc = "done"
    /\ popups[1].pc = "done" /\ popups[1].cust = 1 /\ popups[1].windowed
    /\ popups[1].reached /\ popups[1].justQualified
    /\ popups[2].pc = "done" /\ popups[2].cust = 1
    /\ popups[2].reached /\ ~popups[2].justQualified
    /\ 1 \notin DOMAIN recentlyQualified

\* a check for customer 2 leaves the mark of customer 1 in place
C13_WitnessOtherCustomer ==
    /\ popups[1].pc = "done" /\ popups[1].cust = 2 /\ popups[1].reached
    /\ ~popups[1].justQualified
    /\ popups[2].pc = "done" /\ popups[2].cust = 1 /\ popups[2].justQualified


\* C14: the recency map changes during webhook processing only at the
\* step that ends a Requalify whose two writes both succeeded and whose
\* verification read succeeded and found a non-empty date; that step adds
\* (or overwrites) the mark of the handler's customer with the current
\* instant and nothing else, and such a step always sets the mark.
C14_MarkOnlyOnVerifiedRequalify ==
    [][/\ recentlyQualified' # recentlyQualified
          => \E h \in Handlers :
                LET c == hs[h].cust
                IN  /\ hs[h].pc = "verify" /\ hs'[h].pc = "done"
                    /\ hs[h].writes = <<"setDate", "addGroup">>
                    /\ hs[h].dateSuccess /\ hs[h].groupSuccess
                    /\ failures' = failures
                    /\ \E r \in ClaimRecords(c) : r.attribute_value # EmptyValue
                    /\ DOMAIN recentlyQualified' = DOMAIN recentlyQualified \cup {c}
                    /\ recentlyQualified'[c] = now
                    /\ \A d \in DOMAIN recentlyQualified \ {c} :
                          recentlyQualified'[d] = recentlyQualified[d]
       /\ \A h \in Handlers :
             (/\ hs[h].pc = "verify" /\ hs'[h].pc = "done"
              /\ failures' = failures
              /\ \E r \in ClaimRecords(hs[h].cust) :
                    r.attribute_value # EmptyValue)
             => /\ hs[h].cust \in DOMAIN recentlyQualified'
                /\ recentlyQualified'[hs[h].cust] = now
      ]_vars

\* one delivery ended a verified Requalify and set the mark; the other one
\* had a write fail and left the map alone
C14_Witness ==
    /\ 1 \in DOMAIN recentlyQualified
    /\ \E h, k \in Handlers :
          /\ hs[h].pc = "done" /\ hs[h].marked /\ hs[h].cust = 1
          /\ hs[k].pc = "done" /\ ~hs[k].marked /\ hs[k].cust = 1
          /\ hs[k].writes = <<"setDate", "addGroup">>
          /\ hs[k].dateSuccess /\ ~hs[k].groupSuccess


\* C15: a handler sends no response before it finishes and exactly one when
\* it finishes.  The response is 500 exactly when an exception reached the
\* top-level catch: data is missing from an order event that is not a
\* duplicate, or the order, customer or line-item fetch was rejected (a
\* failed call, or an order id the order source does not know).  In every
\* other case (duplicate, other scope, guest, below threshold, NoAction,
\* Demote, Requalify with or without a failed write or verification) it
\* is 200.
C15_ExactlyOneResponse ==
    [][\A h \in Handlers :
          /\ hs'[h].responses = IF hs'[h].pc = "done" THEN 1 ELSE 0
          /\ (hs[h].pc # "done" /\ hs'[h].pc = "done")
             => LET b == hs'[h].body
                    escaped ==
                       \/ /\ hs[h].pc = "none"
                          /\ ClaimKey(b) \notin processedWebhooks
                          /\ b.scope = "store/order/created"
                          /\ ~b.hasData
                       \/ /\ hs[h].pc \in {"order", "customer", "products"}
                          /\ failures' = failures + 1
                       \/ /\ hs[h].pc = "order"
                          /\ b.id \notin OrderIds
                IN  hs'[h].status = IF escaped THEN 500 ELSE 200
      ]_vars

\* one delivery without data was answered 500, and a Requalify whose date
\* write failed was answered 200
C15_Witness ==
    \E h, k \in Handlers :
        /\ hs[h].pc = "done" /\ hs[h].status = 500 /\ ~hs[h].body.hasData
        /\ hs[h].responses = 1
        /\ hs[k].pc = "done" /\ hs[k].status = 200 /\ hs[k].responses = 1
        /\ hs[k].writes = <<"setDate", "addGroup">> /\ ~hs[k].dateSuccess


\* C16: an order-created delivery that lacks data or data.id, or whose order
\* id the order source does not know, issues no directory write and is
\* answered 200.
C16_MalformedAcknowledged ==
    \A h \in Handlers :
        (/\ hs[h].pc = "done"
         /\ hs[h].body.scope = "store/order/created"
         /\ (~hs[h].body.hasData \/ hs[h].body.id \notin OrderIds))
        => /\ hs[h].writes = <<>>
           /\ hs[h].status = 200


\* C17: no state of a customer is terminal.  Whenever the line items of a
\* qualifying order of a customer read as outside the VIP group have been
\* requested, the customer becomes Qualified (VIP group and a record holding
\* the day of the order), whatever happened to the customer before; and
\* whenever a customer is at rest in the VIP group with a record older than
\* DISCOUNT_DAYS days, the customer is demoted (outside the group, no
\* record).  Both hold from the moment on at which no further call fails.
C17_NoTerminalState ==
    /\ \A h \in Handlers :
          (/\ hs[h].pc = "products"
           /\ ClaimTotal(Order(hs[h].body.id).items) >= MIN_QUANTITY
           /\ failures = MaxFailures)
          ~> (/\ hs[h].cust \in Customers
              /\ group[hs[h].cust] = VIP_GROUP_ID
              /\ \E r \in ClaimRecords(hs[h].cust) :
                    r.attribute_value = hs[h].today)
    /\ \A c \in Customers :
          (/\ Quiet
           /\ failures = MaxFailures
           /\ group[c] = VIP_GROUP_ID
           /\ \E r \in ClaimRecords(c) :
                 /\ r.attribute_value # EmptyValue
                 /\ AgeTicks(r.attribute_value, now) > WindowTicks)
          ~> (group[c] # VIP_GROUP_ID /\ ClaimRecords(c) = {})

\* customer 1 was demoted by the sweep, requalified by an order, and after
\* the window had passed demoted by the next order
C17_Witness ==
    /\ SweepWrote(1, "removeGroup") /\ SweepWrote(1, "delete")
    /\ hs[1].pc = "done" /\ hs[1].cust = 1 /\ hs[1].vip = "no"
    /\ hs[1].writes = <<"setDate", "addGroup">>
    /\ hs[1].dateSuccess /\ hs[1].groupSuccess
    /\ hs[2].pc = "done" /\ hs[2].cust = 1 /\ hs[2].seen = "dated"
    /\ hs[2].writes = <<"removeGroup", "delete">> /\ ~hs[2].failed
    /\ group[1] = 0 /\ ClaimRecords(1) = {}

\* customer 1 was demoted by an order and requalified by the next order
C17_WitnessAfterOrderDemote ==
    /\ hs[1].pc = "done" /\ hs[1].cust = 1
    /\ hs[1].writes = <<"removeGroup", "delete">> /\ ~hs[1].failed
    /\ hs[2].pc = "done" /\ hs[2].cust = 1 /\ hs[2].vip = "no"
    /\ hs[2].writes = <<"setDate", "addGroup">>
    /\ hs[2].dateSuccess /\ hs[2].groupSuccess
    /\ group[1] = VIP_GROUP_ID
    /\ \E r \in ClaimRecords(1) : r.attribute_value = hs[2].today


\* C18: when two distinct qualifying order events of one customer have both
\* read the customer as outside the VIP group and no remote call has failed,
\* both issue the two Requalify writes, and once both have finished the
\* customer is in the VIP group with exactly one qualification-date record,
\* which holds the day one of the two events took as today.
C18_RequalifyRaceBenign ==
    \A h, k \in Handlers :
        (/\ h # k
         /\ failures = 0
         /\ hs[h].pc = "done" /\ hs[k].pc = "done"
         /\ hs[h].vip = "no" /\ hs[k].vip = "no"
         /\ hs[h].cust = hs[k].cust
         /\ hs[h].body # hs[k].body
         /\ ClaimTotal(Order(hs[h].body.id).items) >= MIN_QUANTITY
         /\ ClaimTotal(Order(hs[k].body.id).items) >= MIN_QUANTITY)
        => /\ hs[h].writes = <<"setDate", "addGroup">>
           /\ hs[k].writes = <<"setDate", "addGroup">>
           /\ group[hs[h].cust] = VIP_GROUP_ID
           /\ \E r \in ClaimRecords(hs[h].cust) :
                 /\ ClaimRecords(hs[h].cust) = {r}
                 /\ r.attribute_value \in {hs[h].today, hs[k].today}
                 /\ r.attribute_value = TodayOf(hs[h].qualAt)
                    \/ r.attribute_value = TodayOf(hs[k].qualAt)

\* the writes of the two events interleaved, and the events took different
\* days as today
C18_Witness ==
    /\ failures = 0
    /\ \A h \in Handlers :
          /\ hs[h].pc = "done" /\ hs[h].vip = "no" /\ hs[h].cust = 1
          /\ hs[h].writes = <<"setDate", "addGroup">>
          /\ hs[h].interfered
    /\ hs[1].body # hs[2].body
    /\ hs[1].today # hs[2].today
    /\ group[1] = VIP_GROUP_ID
    /\ Cardinality(ClaimRecords(1)) = 1


\* C19: from a consistent directory and without a failed call, whenever no
\* handler and no sweep pass is in flight, each customer is in the VIP group
\* exactly when it has a qualification-date record with a value.
C19_QuiescentConsistent ==
    (/\ \A h \in Handlers : hs[h].pc \in {"none", "done"}
     /\ sweep.pc = "idle"
     /\ failures = 0)
    => \A c \in Customers :
          group[c] = VIP_GROUP_ID
          <=> \E r \in ClaimRecords(c) : r.attribute_value # EmptyValue


\* handler h ended a Requalify in which exactly one of the two writes
\* succeeded
PartialRequalify(h) ==
    /\ hs[h].pc = "done"
    /\ hs[h].writes = <<"setDate", "addGroup">>
    /\ hs[h].dateSuccess # hs[h].groupSuccess

ClaimConsistent(c) ==
    group[c] = VIP_GROUP_ID
    <=> \E r \in ClaimRecords(c) : r.attribute_value # EmptyValue

\* C20: after a Requalify of customer c in which exactly one write
\* succeeded, c is consistent (in the VIP group exactly when it has a record
\* with a value) whenever the server is at rest after a sweep pass that
\* began afterwards and ended without a failed call, and whenever it is at
\* rest after a later order event of c that finished without a failed call.
C20_PartialRequalifyRecovered ==
    \A h \in Handlers :
        PartialRequalify(h)
        => /\ (Quiet /\ ~sweep.failed /\ h \in sweep.after)
              => ClaimConsistent(hs[h].cust)
           /\ \A k \in Handlers :
                 (/\ Quiet
                  /\ k > h /\ hs[k].pc = "done" /\ ~hs[k].failed
                  /\ hs[k].cust = hs[h].cust)
                 => ClaimConsistent(hs[h].cust)

\* the half of C20 about the next order event alone (the orders of
\* RaceBodies qualify)
C20_NextOrderRecovers ==
    \A h \in Handlers :
        PartialRequalify(h)
        => \A k \in Handlers :
              (/\ Quiet
               /\ k > h /\ hs[k].pc = "done" /\ ~hs[k].failed
               /\ hs[k].cust = hs[h].cust)
              => ClaimConsistent(hs[h].cust)


\* C21: Requalify has no rollback and no retry.  The step that receives the
\* answer of the group write when one of the two writes failed ends the
\* handler with 200: no further call is issued (no compensating write, no
\* verification), the handler's writes are the date write and the group
\* write, once each, and a write that succeeded is in the directory after
\* the step (unless another invocation wrote to the same customer).  The
\* step that receives a verification re-read without a value ends the
\* handler with 200, leaves the directory as it is, and the handler's writes
\* are still the same two.  No handler reaches the verification unless both
\* writes succeeded.
C21_NoRollbackNoRetry ==
    [][\A h \in Handlers :
          LET c == hs[h].cust
              two == <<"setDate", "addGroup">>
          IN  /\ (hs[h].pc = "addGroup" /\ hs'[h].pc # "addGroup")
                 => LET groupFailed == failures' = failures + 1
                    IN  /\ hs'[h].writes = two
                        /\ (~hs[h].dateSuccess \/ groupFailed)
                           => /\ hs'[h].pc = "done"
                              /\ hs'[h].status = 200
                              /\ hs'[h].calls = hs[h].calls
                              /\ attrs' = attrs
                              /\ (hs[h].dateSuccess /\ ~hs[h].interfered)
                                 => \E r \in ClaimRecordsIn(attrs', c) :
                                       r.attribute_value = hs[h].today
                              /\ ~groupFailed => group'[c] = VIP_GROUP_ID
                              /\ groupFailed => group' = group
                        /\ (hs[h].dateSuccess /\ ~groupFailed)
                           => hs'[h].pc = "delay"
              /\ hs'[h].pc \in {"delay", "verify"}
                 => /\ hs'[h].dateSuccess /\ hs'[h].groupSuccess
                    /\ hs'[h].writes = two
              /\ (hs[h].pc = "verify" /\ hs'[h].pc # "verify")
                 => /\ hs'[h].pc = "done"
                    /\ hs'[h].status = 200
                    /\ hs'[h].writes = two
                    /\ hs'[h].calls = hs[h].calls
                    /\ attrs' = attrs /\ group' = group /\ nextId' = nextId
      ]_vars

\* the group write of a Requalify failed after its date write had
\* succeeded: the handler is done with 200, and the date it wrote is in
\* the directory of a customer who is not in the VIP group
C21_Witness ==
    \E h \in Handlers :
        /\ hs[h].pc = "done" /\ hs[h].status = 200 /\ hs[h].path = "requalify"
        /\ hs[h].dateSuccess /\ ~hs[h].groupSuccess
        /\ hs[h].writes = <<"setDate", "addGroup">>
        /\ \E r \in ClaimRecords(hs[h].cust) : r.attribute_value = hs[h].today
        /\ group[hs[h].cust] # VIP_GROUP_ID

\* both writes of a Requalify succeeded and its verification re-read
\* returned no value: the handler is done with 200 and without a mark
C21_WitnessUnverified ==
    \E h \in Handlers :
        /\ hs[h].pc = "done" /\ hs[h].status = 200 /\ hs[h].path = "requalify"
        /\ hs[h].dateSuccess /\ hs[h].groupSuccess /\ ~hs[h].marked
        /\ hs[h].writes = <<"setDate", "addGroup">>


\* C22: a delivery of a well-formed order event that repeats, within 60
\* seconds or later, a delivery answered 500 is processed again: it is not
\* answered as a duplicate.
C22_FailedEventReprocessed ==
    [][\A h, k \in Handlers :
          (/\ hs[h].pc = "done" /\ hs[h].status = 500
           /\ IsOrderEvent(hs[h].body)
           /\ hs[k].pc = "none" /\ hs'[k].pc # "none"
           /\ ClaimKey(hs'[k].body) = ClaimKey(hs[h].body))
          => hs'[k].path # "duplicate"
      ]_vars


\* C23 as stated: no failure of a remote call of a handler that processes
\* a well-formed order event produces a 500 response.
C23_FailureNeverEscapes ==
    \A h \in Handlers :
        (hs[h].pc = "done" /\ IsOrderEvent(hs[h].body) /\ hs[h].failed)
        => hs[h].status # 500

\* C23, amended: a failed attribute read, date upsert, group write or
\* attribute delete is turned into a sentinel at its call site: the
\* directory is left as it is and the handler goes on as its code does
\* with null or false (a failed expiry read demotes, a failed lookup ends
\* the Demote, a failed write is recorded as false), and the handler never
\* answers 500 for it.  A failed order fetch, customer fetch or line-item
\* fetch ends the handler at once with 500 and without any write.
C23_SentinelOrEscape ==
    [][\A h \in Handlers :
          (hs'[h].pc # hs[h].pc /\ failures' = failures + 1)
          => LET pc == hs[h].pc
                 r == hs'[h]
             IN  /\ attrs' = attrs /\ group' = group /\ nextId' = nextId
                 /\ recentlyQualified' = recentlyQualified
                 /\ pc \in {"order", "customer", "products"}
                    => r.pc = "done" /\ r.status = 500 /\ r.writes = <<>>
                 /\ pc = "expiry" => r.pc = "remove"
                 /\ pc = "remove" => r.pc = "lookup"
                 /\ pc = "lookup" => r.pc = "done" /\ r.status = 200
                 /\ pc = "delete" => r.pc = "done" /\ r.status = 200
                 /\ pc = "setDate" => r.pc = "addGroup" /\ ~r.dateSuccess
                 /\ pc = "addGroup"
                    => r.pc = "done" /\ r.status = 200 /\ ~r.groupSuccess
                 /\ pc = "verify"
                    => r.pc = "done" /\ r.status = 200 /\ ~r.marked
      ]_vars

\* the delete of a Demote failed and the handler answered 200
C23_Witness ==
    \E h \in Handlers :
        /\ hs[h].pc = "done" /\ hs[h].failed /\ hs[h].status = 200
        /\ hs[h].writes = <<"removeGroup", "delete">>
        /\ ClaimRecords(hs[h].cust) # {}

\* the line-item fetch of a well-formed order event failed and the
\* handler answered 500
C23_WitnessEscape ==
    \E h \in Handlers :
        /\ hs[h].pc = "done" /\ hs[h].failed /\ hs[h].status = 500
        /\ IsOrderEvent(hs[h].body) /\ hs[h].vip = "no"


\* C24: in the VIP branch a failed read of the qualification attribute is
\* handled like a missing record, whatever date is stored: the handler
\* takes the Demote path, its next call is the group removal, which sets
\* the customer's group to 0 when it succeeds, and then come the lookup and,
\* if the lookup finds a record, the delete of that record.
C24_ReadFailureDemotes ==
    [][\A h \in Handlers :
          hs'[h].pc # hs[h].pc
          => LET pc == hs[h].pc
                 c == hs[h].cust
                 r == hs'[h]
                 okStep == failures' = failures
             IN  /\ (pc = "expiry" /\ (~okStep \/ ClaimRecords(c) = {}))
                    => /\ hs[h].vip = "yes"
                       /\ r.pc = "remove" /\ r.seen = "null"
                       /\ r.path = "demote" /\ r.writes = <<>>
                 /\ (pc = "remove" /\ hs[h].seen = "null")
                    => /\ r.pc = "lookup" /\ r.writes = <<"removeGroup">>
                       /\ okStep => group'[c] = 0
                 /\ (pc = "lookup" /\ hs[h].seen = "null" /\ okStep)
                    => IF ClaimRecords(c) = {}
                       THEN r.pc = "done" /\ r.status = 200
                       ELSE /\ r.pc = "delete"
                            /\ \E a \in ClaimRecords(c) : a.id = r.attrId
                 /\ (pc = "delete" /\ hs[h].seen = "null" /\ okStep)
                    => /\ r.pc = "done" /\ r.status = 200
                       /\ r.writes = <<"removeGroup", "delete">>
                       /\ \A a \in attrs' : a.id # hs[h].attrId
      ]_vars

\* the read failed for a customer whose stored date is within
\* DISCOUNT_DAYS, and the group removal has set the group to 0
C24_Witness ==
    \E h \in Handlers :
        /\ hs[h].pc = "lookup" /\ hs[h].seen = "null" /\ hs[h].failed
        /\ hs[h].cust \in Customers /\ group[hs[h].cust] = 0
        /\ \E a \in ClaimRecords(hs[h].cust) :
              /\ a.attribute_value # EmptyValue
              /\ AgeTicks(a.attribute_value, now) <= WindowTicks

\* the Demote after a failed read has run to its end: group 0, record
\* deleted, 200
C24_WitnessDeleted ==
    \E h \in Handlers :
        /\ hs[h].pc = "done" /\ hs[h].seen = "null" /\ hs[h].failed
        /\ hs[h].status = 200 /\ hs[h].writes = <<"removeGroup", "delete">>
        /\ group[hs[h].cust] = 0 /\ ClaimRecords(hs[h].cust) = {}


\* C25: Requalify is an ordered saga.  The date upsert is the first write
\* and is issued when the line items have been read; the group write is
\* issued at the step that receives the answer of the date upsert, whether
\* that answer is a success or a failure, and at no other step; the
\* verification is issued only after the delay that follows the answer of
\* the group write, and only when both writes returned success.
C25_SagaOrder ==
    [][\A h \in Handlers :
          hs'[h].pc # hs[h].pc
          => LET pc == hs[h].pc
                 r == hs'[h]
             IN  /\ r.pc = "setDate"
                    => pc = "products" /\ r.writes = <<>>
                 /\ r.pc = "addGroup"
                    => pc = "setDate" /\ r.writes = <<"setDate">>
                 /\ pc = "setDate"
                    => /\ r.pc = "addGroup"
                       /\ r.dateSuccess = (failures' = failures)
                 /\ r.pc = "delay"
                    => /\ pc = "addGroup"
                       /\ r.writes = <<"setDate", "addGroup">>
                       /\ hs[h].dateSuccess /\ failures' = failures
                 /\ r.pc = "verify"
                    => /\ pc = "delay"
                       /\ r.writes = <<"setDate", "addGroup">>
                       /\ r.dateSuccess /\ r.groupSuccess
                 /\ (pc = "addGroup" /\ hs[h].dateSuccess /\ failures' = failures)
                    => r.pc = "delay"
      ]_vars

\* the date upsert failed and the group write has been issued all the same
C25_Witness ==
    \E h \in Handlers :
        /\ hs[h].pc = "addGroup" /\ ~hs[h].dateSuccess /\ hs[h].failed
        /\ hs[h].writes = <<"setDate">>
        /\ ClaimRecords(hs[h].cust) = {}

\* both writes returned success and the verification has been issued
C25_WitnessVerify ==
    \E h \in Handlers :
        /\ hs[h].pc = "verify" /\ hs[h].dateSuccess /\ hs[h].groupSuccess
        /\ group[hs[h].cust] = VIP_GROUP_ID
        /\ \E a \in ClaimRecords(hs[h].cust) : a.attribute_value = hs[h].today


\* C26: in the sweep the group removal of a record's customer is issued
\* first, and the step that receives its answer, success or failure,
\* issues the deletion of that record.  When the deletion succeeds after
\* the removal failed, the customer is in the VIP group without a
\* qualification-date record.  A customer in the VIP group without a
\* qualification-date record stays so, and the sweep issues no write for
\* such a customer: every write of the sweep is for a customer that has a
\* dated record.
C26_SweepDeleteRegardless ==
    [][/\ (sweep.pc = "remove" /\ sweep' # sweep)
          => LET c == sweep.list[sweep.idx].customer_id
             IN  /\ sweep'.pc = "delete" /\ sweep'.idx = sweep.idx
                 /\ sweep'.writes = Append(sweep.writes, <<c, "removeGroup">>)
                 /\ failures' = failures + 1 => group' = group
       /\ (sweep'.pc = "delete" /\ sweep.pc # "delete") => sweep.pc = "remove"
       /\ (sweep.pc = "delete" /\ sweep' # sweep)
          => LET a == sweep.list[sweep.idx]
             IN  /\ sweep'.writes = Append(sweep.writes, <<a.customer_id, "delete">>)
                 /\ SweepWrote(a.customer_id, "removeGroup")
                 /\ (failures' = failures /\ group[a.customer_id] = VIP_GROUP_ID)
                    => /\ group'[a.customer_id] = VIP_GROUP_ID
                       /\ ClaimRecordsIn(attrs', a.customer_id) = {}
       /\ sweep'.writes # sweep.writes /\ sweep'.writes # <<>>
          => \E r \in ClaimRecords(sweep'.writes[Len(sweep'.writes)][1]) :
                r.attribute_value # EmptyValue
       /\ \A c \in Customers :
             (group[c] = VIP_GROUP_ID /\ ClaimRecords(c) = {})
             => /\ group'[c] = VIP_GROUP_ID
                /\ ClaimRecordsIn(attrs', c) = {}
                /\ \A i \in 1..Len(sweep'.writes) :
                      sweep'.writes[i][1] = c
                      => i <= Len(sweep.writes) /\ sweep.writes[i] = sweep'.writes[i]
      ]_vars

\* a pass has ended in which the group removal of a customer failed and
\* the deletion of its record succeeded: the customer is in the VIP group
\* and has no qualification-date record
C26_Witness ==
    /\ sweep.pc = "idle" /\ sweep.failed
    /\ \E r \in SweepDated :
          /\ AgeTicks(r.attribute_value, sweep.fetchedAt) > WindowTicks
          /\ SweepWrote(r.customer_id, "removeGroup")
          /\ SweepWrote(r.customer_id, "delete")
          /\ group[r.customer_id] = VIP_GROUP_ID
          /\ ClaimRecords(r.customer_id) = {}


\* the deliveries whose 60 s window for key k is open
OpenFor(k) == {h \in Handlers : hs[h].win = "open" /\ ClaimKey(hs[h].body) = k}

\* C27: a key is in the dedup set exactly while the 60 s timer of the one
\* delivery that was accepted with it is pending.  A delivery whose key is
\* in the set is answered as a duplicate and changes neither the set nor
\* the timers; a delivery whose key is not in the set inserts the key and
\* sets one timer for it.  A key leaves the set only when its timer fires.
\* Every key in the set is eventually removed, and the set is empty when
\* the clock ticks and from some point on for ever.
C27_DedupLifecycle ==
    /\ [](\A k \in Keys :
            /\ timers[k] \in {0, 1}
            /\ k \in processedWebhooks <=> timers[k] = 1
            /\ Cardinality(OpenFor(k)) = timers[k])
    /\ [][/\ \A h \in Handlers :
              (hs[h].pc = "none" /\ hs'[h].pc # "none")
              => LET k == ClaimKey(hs'[h].body)
                 IN  IF k \in processedWebhooks
                     THEN /\ processedWebhooks' = processedWebhooks
                          /\ timers' = timers
                          /\ hs'[h].path = "duplicate" /\ hs'[h].win = "none"
                     ELSE /\ processedWebhooks' = processedWebhooks \cup {k}
                          /\ timers' = [timers EXCEPT ![k] = 1]
                          /\ hs'[h].path # "duplicate" /\ hs'[h].win = "open"
          /\ \A k \in Keys :
                (k \in processedWebhooks /\ k \notin processedWebhooks')
                => /\ timers[k] = 1 /\ timers'[k] = 0
                   /\ delivered' = delivered
                   /\ processedWebhooks' = processedWebhooks \ {k}
          /\ now' # now => processedWebhooks = {}
        ]_vars
    /\ \A k \in Keys : (k \in processedWebhooks) ~> (k \notin processedWebhooks)
    /\ <>[](processedWebhooks = {})

\* a delivery was accepted, a second delivery of the same event was
\* answered as a duplicate while the key was in the set, and the one timer
\* has fired since: the set is empty
C27_Witness ==
    /\ processedWebhooks = {}
    /\ \E h, k \in Handlers :
          /\ hs[h].win = "closed"
          /\ hs[k].path = "duplicate"
          /\ ClaimKey(hs[k].body) = ClaimKey(hs[h].body)

\* a delivery was accepted again after the timer of an earlier delivery
\* of the same event had fired
C27_WitnessAgain ==
    \E h, k \in Handlers :
        /\ hs[h].win = "closed" /\ hs[k].win = "open"
        /\ ClaimKey(hs[k].body) = ClaimKey(hs[h].body)
        /\ processedWebhooks = {ClaimKey(hs[k].body)}


\* the instants of the clock
ClaimInstants == (StartDay * TicksPerDay)..(StartDay * TicksPerDay + MaxTicks)

\* a mark made at instant t is older, at the current instant, than the
\* 10 minutes = 600 seconds of the window (a day has 86400 seconds)
ClaimOlderThanWindow(t) == (now - t) * 86400 > 600 * TicksPerDay

\* C28: a mark leaves the recency map only when a popup check for its
\* customer consumes it (and answers justQualified) or when it is older
\* than the 10-minute window; a mark that is not older than the window is
\* never removed otherwise.  The map has one entry per customer at most,
\* and marking a customer again overwrites the instant of its entry.
\* Every mark made before the last instant of the clock is eventually
\* gone (removed, or overwritten by a newer one), whether or not a popup
\* check ever asked for it.
C28_RecencyEviction ==
    /\ [][\A c \in Customers :
              /\ (c \in DOMAIN recentlyQualified /\ c \notin DOMAIN recentlyQualified')
                 => \/ \E p \in Polls :
                          /\ popups[p].pc # "done" /\ popups'[p].pc = "done"
                          /\ popups'[p].cust = c
                          /\ popups'[p].justQualified
                    \/ /\ popups' = popups
                       /\ ClaimOlderThanWindow(recentlyQualified[c])
              /\ (/\ c \in DOMAIN recentlyQualified
                  /\ c \in DOMAIN recentlyQualified'
                  /\ recentlyQualified'[c] # recentlyQualified[c])
                 => /\ recentlyQualified'[c] = now
                    /\ \E h \in Handlers :
                          /\ hs[h].pc = "verify" /\ hs'[h].pc = "done"
                          /\ hs[h].cust = c
              /\ DOMAIN recentlyQualified' \subseteq Customers
        ]_vars
    /\ \A c \in Customers, t \in ClaimInstants :
          (/\ t < StartDay * TicksPerDay + MaxTicks
           /\ c \in DOMAIN recentlyQualified
           /\ recentlyQualified[c] = t)
          ~> ~(c \in DOMAIN recentlyQualified /\ recentlyQualified[c] = t)

\* a mark was set, no popup check was ever made, the clock has advanced,
\* and the mark is gone
C28_Witness ==
    /\ recentlyQualified = [c \in {} |-> 0]
    /\ \A p \in Polls : popups[p].pc = "none"
    /\ \E h \in Handlers : hs[h].marked /\ hs[h].qualAt < now

\* a customer was marked twice and the entry holds the later instant
C28_WitnessOverwritten ==
    /\ \A p \in Polls : popups[p].pc = "none"
    /\ \E h, k \in Handlers :
          /\ hs[h].marked /\ hs[k].marked /\ hs[h].cust = hs[k].cust
          /\ hs[h].qualAt < hs[k].qualAt
          /\ hs[k].cust \in DOMAIN recentlyQualified
          /\ recentlyQualified[hs[k].cust] = now
          /\ hs[h].qualAt < now


\* the step that a handler in flight is waiting for: the answer of its
\* outstanding remote call, or the end of the 1 s delay
ClaimAwaited(h) ==
    \/ \E ok \in BOOLEAN : OrderResp(h, ok)
    \/ \E ok \in BOOLEAN : CustomerResp(h, ok)
    \/ \E ok \in BOOLEAN : ExpiryResp(h, ok)
    \/ \E ok \in BOOLEAN : RemoveResp(h, ok)
    \/ \E ok \in BOOLEAN : LookupResp(h, ok)
    \/ \E ok \in BOOLEAN : DeleteResp(h, ok)
    \/ \E ok \in BOOLEAN : ProductsResp(h, ok)
    \/ \E ok \in BOOLEAN : SetDateResp(h, ok)
    \/ \E ok \in BOOLEAN : AddGroupResp(h, ok)
    \/ DelayDone(h)
    \/ \E ok \in BOOLEAN : VerifyResp(h, ok)

ClaimSweepAwaited ==
    \/ \E ok \in BOOLEAN : SweepFetchResp(ok)
    \/ \E ok \in BOOLEAN : SweepRemoveResp(ok)
    \/ \E ok \in BOOLEAN : SweepDeleteResp(ok)

\* C29: when every remote call that was issued returns (and the 1 s delay
\* ends), every handler in flight eventually sends its response and every
\* sweep pass eventually finishes.  A handler that has not responded, and
\* a pass that has not finished, is waiting for nothing but the answer of
\* its outstanding call (or that delay): the step that delivers it is
\* possible in every such state.
C29_Termination ==
    /\ \A h \in Handlers :
          InFlight(h) ~> (hs[h].pc = "done" /\ hs[h].responses = 1)
    /\ (sweep.pc # "idle") ~> (sweep.pc = "idle")
    /\ [](\A h \in Handlers : InFlight(h) => ENABLED ClaimAwaited(h))
    /\ [](sweep.pc # "idle" => ENABLED ClaimSweepAwaited)

\* a Requalify ran through all six calls and was answered, after a pass of
\* the sweep that issued its writes and finished
C29_Witness ==
    /\ sweep.pc = "idle" /\ Len(sweep.writes) = 2
    /\ \E h \in Handlers :
          /\ hs[h].pc = "done" /\ hs[h].responses = 1 /\ hs[h].calls = 6
          /\ hs[h].marked


\* the positions of a handler at which a remote call is outstanding
ClaimCallPcs ==
    {"order", "customer", "expiry", "remove", "lookup", "delete",
     "products", "setDate", "addGroup", "verify"}

\* C30: remote calls are strictly sequential.  A handler issues at most
\* one call in a step, and only in a step in which it has no call
\* outstanding or receives the answer of the outstanding one; being at a
\* call position and having a call issued coincide.  The sweep's writes
\* come in pairs, the group removal of a customer followed by the deletion
\* of that customer's record, each issued when the one before has been
\* answered; a pair is complete before the removal of the next customer is
\* issued, and no customer is taken twice in a pass.
C30_SequentialCalls ==
    /\ [][\A h \in Handlers :
              /\ hs'[h].calls \in {hs[h].calls, hs[h].calls + 1}
              /\ hs'[h].calls = hs[h].calls + 1
                 <=> (hs'[h].pc # hs[h].pc /\ hs'[h].pc \in ClaimCallPcs)
        ]_vars
    /\ [](LET w == sweep.writes
               n == Len(w)
           IN  /\ \A i \in 1..n :
                     IF i % 2 = 1
                     THEN w[i][2] = "removeGroup"
                     ELSE w[i][2] = "delete" /\ w[i][1] = w[i - 1][1]
               /\ \A i, j \in 1..n : (i + 1 < j) => w[i][1] # w[j][1]
               /\ sweep.pc = "delete" => n % 2 = 1
               /\ sweep.pc \in {"idle", "fetch", "remove"} => n % 2 = 0
               /\ sweep.pc = "remove"
                  => \A i \in 1..n : w[i][1] # sweep.list[sweep.idx].customer_id)

\* a pass took two customers in turn, removal then deletion for each, and
\* a Requalify that ran beside it issued its six calls one after another
C30_Witness ==
    /\ Len(sweep.writes) = 4
    /\ sweep.writes[1][1] # sweep.writes[3][1]
    /\ \E h \in Handlers :
          hs[h].pc = "done" /\ hs[h].calls = 6 /\ hs[h].interfered


\* the response {justQualified: false, isVIP: false, daysLeft: 0}
ClaimRefused(r) ==
    r.pc = "done" /\ ~r.justQualified /\ ~r.isVIP /\ r.daysLeft = 0

\* customer c has a qualification date that is not expired now
ClaimValidDate(c) ==
    \E a \in ClaimRecords(c) :
        /\ a.attribute_value # EmptyValue
        /\ AgeTicks(a.attribute_value, now) <= WindowTicks

\* C31: in the popup check of the windowed variant, the expiry read is
\* issued only when the customer read succeeded and showed the VIP group;
\* otherwise the check is refused.  When the expiry read fails or finds no
\* date or an expired one, the check is refused.  A refusal is the
\* response {justQualified: false, isVIP: false, daysLeft: 0} and leaves
\* the recency map as it is.  Otherwise the response has isVIP true and
\* justQualified exactly when the customer has a mark, and that mark, and
\* nothing else, is removed from the map.
C31_WindowedPopupGating ==
    [][\A p \in Polls :
          (popups'[p] # popups[p] /\ popups[p].pc \in {"customer", "expiry"})
          => LET c == popups[p].cust
                 r == popups'[p]
                 okStep == failures' = failures
                 marked == c \in DOMAIN recentlyQualified
             IN  /\ popups[p].pc = "customer"
                    => IF okStep /\ group[c] = VIP_GROUP_ID
                       THEN r.pc = "expiry" /\ recentlyQualified' = recentlyQualified
                       ELSE ClaimRefused(r) /\ recentlyQualified' = recentlyQualified
                 /\ popups[p].pc = "expiry"
                    => IF okStep /\ ClaimValidDate(c)
                       THEN /\ r.pc = "done" /\ r.isVIP
                            /\ r.justQualified = marked
                            /\ DOMAIN recentlyQualified' = DOMAIN recentlyQualified \ {c}
                            /\ \A d \in DOMAIN recentlyQualified' :
                                  recentlyQualified'[d] = recentlyQualified[d]
                       ELSE ClaimRefused(r) /\ recentlyQualified' = recentlyQualified
      ]_vars

\* a check of customer 1 was refused because a directory read failed, and
\* another check of the same customer was answered justQualified; the mark
\* that a Requalify had set is consumed
C31_Witness ==
    /\ 1 \notin DOMAIN recentlyQualified
    /\ \E h \in Handlers : hs[h].marked /\ hs[h].cust = 1
    /\ \E p, q \in Polls :
          /\ popups[p].windowed /\ popups[p].cust = 1 /\ popups[p].failed
          /\ ClaimRefused(popups[p])
          /\ popups[q].windowed /\ popups[q].cust = 1 /\ popups[q].pc = "done"
          /\ popups[q].justQualified /\ popups[q].isVIP

\* a check of a marked customer who is in the VIP group without a date
\* was refused without a failed read, and the mark is still in place
C31_WitnessNoDate ==
    /\ 1 \in DOMAIN recentlyQualified
    /\ group[1] = VIP_GROUP_ID /\ ClaimRecords(1) = {}
    /\ \E p \in Polls :
          /\ popups[p].windowed /\ popups[p].cust = 1 /\ ~popups[p].failed
          /\ ClaimRefused(popups[p])


\* the customers whose group, qualification-date records or recency mark
\* differ between the two states of a step
ClaimChanged ==
    {c \in Customers :
        \/ group'[c] # group[c]
        \/ ClaimRecordsIn(attrs', c) # ClaimRecords(c)
        \/ (c \in DOMAIN recentlyQualified') # (c \in DOMAIN recentlyQualified)
        \/ /\ c \in DOMAIN recentlyQualified /\ c \in DOMAIN recentlyQualified'
           /\ recentlyQualified'[c] # recentlyQualified[c]}

\* C32: a step of the handler of an order event of customer C changes the
\* group, the qualification-date records and the recency mark of no
\* customer but C.  A step of the sweep leaves the recency map alone and
\* changes group and records only when it issues a write, and then only
\* of the customer of that write, who has a record in the fetched list
\* that is older than DISCOUNT_DAYS.  No step touches a record of another
\* attribute.
C32_Frame ==
    [][/\ \A h \in Handlers :
             hs'[h].pc # hs[h].pc => ClaimChanged \subseteq {hs'[h].cust}
       /\ (sweep'.pc # sweep.pc \/ sweep'.writes # sweep.writes)
          => /\ recentlyQualified' = recentlyQualified
             /\ IF Len(sweep'.writes) > Len(sweep.writes)
                THEN LET c == sweep'.writes[Len(sweep'.writes)][1]
                     IN  /\ ClaimChanged \subseteq {c}
                         /\ \E i \in 1..Len(sweep.list) :
                               /\ sweep.list[i].customer_id = c
                               /\ sweep.list[i] \in sweep.snapshot
                               /\ AgeTicks(sweep.list[i].attribute_value, now)
                                     > WindowTicks
                ELSE ClaimChanged = {}
       /\ {r \in attrs' : r.attribute_id # DATE_ATTRIBUTE_ID}
             = {r \in attrs : r.attribute_id # DATE_ATTRIBUTE_ID}
      ]_vars

\* a Requalify of customer 1 wrote its date and group and set its mark,
\* and the sweep demoted customer 2, whose record was expired in its list;
\* each left the other customer as it was
C32_Witness ==
    /\ \E h \in Handlers :
          /\ hs[h].pc = "done" /\ hs[h].cust = 1 /\ hs[h].marked
          /\ hs[h].writes = <<"setDate", "addGroup">>
          /\ \E a \in ClaimRecords(1) : a.attribute_value = hs[h].today
    /\ group[1] = VIP_GROUP_ID /\ DOMAIN recentlyQualified = {1}
    /\ sweep.pc = "idle" /\ sweep.writes = <<<<2, "removeGroup">>, <<2, "delete">>>>
    /\ group[2] = 0 /\ ClaimRecords(2) = {}


\* C33: in the single-use handler, an order event whose customer is read
\* as in the VIP group takes the Demote path whatever the stored date and
\* the order's quantity: the group removal is issued at once, then the
\* lookup and, when it finds a record, the delete.  Such a handler issues
\* no date write and no group add, sets no mark, and answers 200.  When
\* none of its calls failed and no other invocation wrote to the same
\* customer meanwhile, the customer ends in group 0 without a
\* qualification-date record.
C33_SingleUseDemotes ==
    [][\A h \in Handlers :
          hs'[h].pc # hs[h].pc
          => LET c == hs'[h].cust
                 r == hs'[h]
                 okStep == failures' = failures
             IN  /\ (/\ hs[h].pc = "customer" /\ okStep
                     /\ c \in Customers /\ group[c] = VIP_GROUP_ID)
                    => r.pc = "remove" /\ r.vip = "yes" /\ r.writes = <<>>
                 /\ hs[h].vip = "yes"
                    => /\ r.pc \in {"lookup", "delete", "done"}
                       /\ r.writes \in {<<"removeGroup">>, <<"removeGroup", "delete">>}
                       /\ ~r.marked /\ recentlyQualified' = recentlyQualified
                       /\ (hs[h].pc = "remove" /\ okStep) => group'[c] = 0
                       /\ (hs[h].pc = "lookup" /\ okStep /\ ClaimRecords(c) # {})
                          => r.pc = "delete"
                       /\ r.pc = "done"
                          => /\ r.status = 200
                             /\ (~r.failed /\ ~r.interfered)
                                => /\ group'[c] = 0
                                   /\ ClaimRecordsIn(attrs', c) = {}
      ]_vars

\* customer 2, in the VIP group with a date that has not expired, placed
\* an order without any quantity and was demoted: group 0, record deleted,
\* 200
C33_Witness ==
    \E h \in Handlers :
        /\ hs[h].pc = "done" /\ hs[h].status = 200 /\ hs[h].cust = 2
        /\ hs[h].vip = "yes" /\ hs[h].seen = "unread"
        /\ ClaimTotal(Order(hs[h].body.id).items) = 0
        /\ hs[h].writes = <<"removeGroup", "delete">>
        /\ group[2] = 0 /\ ClaimRecords(2) = {}

\* customer 1 was demoted by one order event and became VIP again by a
\* later, separate qualifying order
C33_WitnessLaterOrder ==
    \E h, k \in Handlers :
        /\ h < k /\ hs[h].cust = 1 /\ hs[k].cust = 1
        /\ hs[h].pc = "done" /\ hs[h].vip = "yes" /\ ~hs[h].interfered
        /\ hs[h].writes = <<"removeGroup", "delete">>
        /\ hs[k].pc = "done" /\ hs[k].vip = "no" /\ hs[k].marked
        /\ group[1] = VIP_GROUP_ID
        /\ \E a \in ClaimRecords(1) : a.attribute_value = hs[k].today

====
